---- MODULE Spec2Model ----
(***************************************************************************)
(* Model of the Change Dispatcher (code/DHDispatcher/main.py): the tables  *)
(* member_changes, service_endpoints and member_changes_processing_log,    *)
(* and the single dispatcher process that drains member_changes in id      *)
(* order, POSTs each change to its effector, records the attempt and marks *)
(* the row processed; and of the file-backed request/reply queue between   *)
(* the DH2RFID / DH2AD producers and the DHRFIDReader / DHADController     *)
(* consumers (code/workers), with the effector chain that calls it.        *)
(***************************************************************************)
EXTENDS Naturals, Integers, Sequences, FiniteSets, TLC

(* ------------------------------ bounds -------------------------------- *)
MaxRows == 3       \* rows inserted into member_changes
MaxLog == 1        \* rows of member_changes_processing_log
MaxFaults == 1     \* injected failures: database errors and crashes
MaxMsgs == 2       \* messages sent over the file queue
MaxTags == 2       \* tags of the member
MaxApply == 3      \* applications of one change to its effector
MaxOps == 2        \* messages sent to the hardware worker
MaxAttempts == 3   \* device timeouts counted for one message
MaxSleeps == 7     \* listener failures, each followed by a sleep
MaxPasses == 2
\* messages sent to the one consumer
MaxFiles == 3
\* events the board records
MaxEvents == 4     \* fetch passes of each of two dispatcher processes

(* ------------------------- program constants -------------------------- *)
BATCH_SIZE == 2
INITIAL_BACKOFF == 1
MAX_BACKOFF == 30

None == "None"
NoService == [name |-> None, endpoint |-> None]
NoResponse == [status_code |-> 0, text |-> None]
ChangeTypes == {"status", "mystery"}
StatusEndpoint == "http://dhstatus/v1/change_status"
MysteryEndpoint == "http://dhmystery/v1/change"
EndpointOf(name) == IF name = "status" THEN StatusEndpoint ELSE MysteryEndpoint

\* what an effector can answer to a POST: (status_code, text)
Responses ==
    { [status_code |-> 200, text |-> "ok"],
      [status_code |-> 500, text |-> "db down"],
      [status_code |-> 404, text |-> "not found"] }

VARIABLES
    member_changes,   \* table: row id = index; [change, processed]
    service_endpoints,\* table: set of [name, endpoint]
    processing_log,   \* table member_changes_processing_log, in insert order
    pc,               \* position of the dispatcher process
    listening,        \* LISTEN issued on the current connection
    notifies,         \* conn.notifies: queued notifications
    last_id,          \* pagination cursor of the running fetch pass
    rows,             \* the fetched batch (ids, in fetch order)
    ri,               \* index in rows of the row being processed
    service,          \* (service_name, endpoint) resolved for the row
    response,         \* the effector's response to the POST
    txn,              \* ids updated in the open transaction of the main conn
    faults,           \* injected failures so far
    lastPost,         \* history: id of the last POST of this process
    passLen,          \* history: Len(member_changes) when the pass started
    attempted,        \* history: ids handed to process_row in the pass
    got200,           \* history: unprocessed ids whose effector answered 200
    lost200,          \* history: those of got200 whose 200 was followed by a failure
    fs,               \* the shared volume: path -> file
    clock,            \* modification time given to the last written message
    ppc,              \* per message: position of the producer call
    expired,          \* per message: time.time() - start_time >= timeout
    ret,              \* per message: (completed, data) of the producer call
    effector_answer,  \* per message: status code the effector answers with
    row_processed,    \* per message: the dispatcher marked the change processed
    cpc,              \* per consumer: position in process_queue
    msg_id,           \* per consumer: id of the message in hand
    holds,            \* history, per consumer: the id it renamed into processing
    nclaims,          \* history, per message: renames into processing
    published,        \* history, per message: renames into responses
    intime,           \* history, per message: a response was published before expiry
    late,             \* history, per message: a response was published after the call returned
    member,           \* member store: membership_status and tags of the member
    effector,         \* the effector the change of the member is routed to
    board,            \* access controller: the cards it holds
    board0,           \* history: the cards it held before the change was applied
    directory,        \* directory account: its enabled flag
    epc,              \* position of the effector in the application of the change
    ti,               \* index in the tag list of the tag in hand
    sent,             \* requests sent to the workers in this application
    answer,           \* status code of the last application
    napply,           \* applications of the change so far
    once,             \* history: the controller after the first complete application
    partial,          \* history: an application stopped after it had sent tag requests
    pending,          \* hardware worker: operations of the messages not yet claimed
    hpc,              \* hardware worker: position in the handling of a message
    hop,              \* hardware worker: operation of the message in hand
    attempts,         \* hardware worker: device timeouts seen for the message in hand
    replies,          \* hardware worker: responses written, in order
    nsub,             \* messages sent to the hardware worker so far
    bpc,              \* main(): position in the reconnection loop
    backoff,          \* main(): seconds the next sleep will take
    sleeps,           \* history: the sleeps since LISTEN was last issued after a connect
    nsleeps,          \* listener failures so far
    lpc,              \* the two loops compared: what has been run
    loop_in,          \* the two loops compared: table, routes and effector answers
    by_resume,        \* outcome of resume_unprocessed on loop_in
    by_notify,        \* outcome of process_pending_notifications on loop_in
    rtpc,             \* route added between two passes: what has been done
    route_in,         \* route added between two passes: table, routes and effector answers
    first_pass,       \* outcome of the pass before the route was added
    second_pass,      \* outcome of the pass after the route was added
    changes,          \* two dispatchers: the member_changes table they share
    dpc,              \* two dispatchers: position of each process
    dlast,            \* two dispatchers: last_id of each process
    drows,            \* two dispatchers: the batch each process fetched
    dri,              \* two dispatchers: index in its batch of the row each process is at
    dtxn,             \* two dispatchers: ids updated in the open transaction of each process
    delivered,        \* history, per row: the processes whose POST was answered 200
    npasses,          \* history, per process: fetch passes started
    ffs,              \* one consumer: the shared volume
    fclock,           \* one consumer: modification time given to the last written message
    fpc,              \* one consumer: position in process_queue
    fmsg,             \* one consumer: id of the message picked
    flisted,          \* history: the listing the message in hand was picked from
    fhandled,         \* history: the messages claimed, in order, each with its listing
    opc,              \* one member: position of the dispatcher
    otags,            \* one member: the rows of get_all_tags_for_member
    ochanges,         \* one member: the status changes of the member, by id
    oboard,           \* one member: tags the controller holds
    olast,            \* one member: last_id of the pass
    orows,            \* one member: the batch fetched
    ori,              \* one member: index of the row in hand
    mpc,              \* RFID2DB: position in main()
    event_index,      \* RFID2DB: index of the newest event on the board
    last_event_index, \* RFID2DB: index the monitoring loop has reached
    handed            \* RFID2DB: events given to insert_rfid_event

dbvars == <<member_changes, service_endpoints, processing_log>>
rowvars == <<service, response>>
passvars == <<last_id, rows, ri, passLen, attempted>>
histvars == <<lastPost, got200, lost200>>
dispatcher == <<member_changes, service_endpoints, processing_log, pc, listening,
                notifies, last_id, rows, ri, service, response, txn, faults,
                lastPost, passLen, attempted, got200, lost200>>
producers == <<ppc, expired, ret, effector_answer, row_processed>>
consumers == <<cpc, msg_id>>
bushist == <<holds, nclaims, published, intime, late>>
bus == <<fs, clock, producers, consumers, bushist>>
effvars == <<member, effector, board, board0, directory, epc, ti, sent, answer, napply, once,
            partial>>
readervars == <<pending, hpc, hop, attempts, replies, nsub>>
backoffvars == <<bpc, backoff, sleeps, nsleeps>>
loopvars == <<lpc, loop_in, by_resume, by_notify>>
routevars == <<rtpc, route_in, first_pass, second_pass>>
twovars == <<changes, dpc, dlast, drows, dri, dtxn, delivered, npasses>>
fifovars == <<ffs, fclock, fpc, fmsg, flisted, fhandled>>
ordvars == <<opc, otags, ochanges, oboard, olast, orows, ori>>
monvars == <<mpc, event_index, last_event_index, handed>>
rest == <<effvars, readervars, backoffvars, loopvars, routevars, twovars, fifovars, ordvars, monvars>>
noteff == <<dispatcher, bus, readervars, backoffvars, loopvars, routevars, twovars, fifovars,
            ordvars, monvars>>
notreader == <<dispatcher, bus, effvars, backoffvars, loopvars, routevars, twovars, fifovars,
               ordvars, monvars>>
notbackoff == <<dispatcher, bus, effvars, readervars, loopvars, routevars, twovars, fifovars,
                ordvars, monvars>>
notloop == <<dispatcher, bus, effvars, readervars, backoffvars, routevars, twovars, fifovars,
             ordvars, monvars>>
notroute == <<dispatcher, bus, effvars, readervars, backoffvars, loopvars, twovars, fifovars,
              ordvars, monvars>>
nottwo == <<dispatcher, bus, effvars, readervars, backoffvars, loopvars, routevars, fifovars,
            ordvars, monvars>>
notfifo == <<dispatcher, bus, effvars, readervars, backoffvars, loopvars, routevars, twovars,
             ordvars, monvars>>
notord == <<dispatcher, bus, effvars, readervars, backoffvars, loopvars, routevars, twovars,
            fifovars, monvars>>
notmon == <<dispatcher, bus, effvars, readervars, backoffvars, loopvars, routevars, twovars,
            fifovars, ordvars>>
vars == <<dispatcher, bus, rest>>

(* --------------------------- SQL operations --------------------------- *)
Ids(mc) == 1..Len(mc)
Unprocessed(mc) == { i \in Ids(mc) : ~mc[i].processed }

RECURSIVE SortedSeq(_)
SortedSeq(S) ==
    IF S = {} THEN <<>>
    ELSE LET m == CHOOSE x \in S : \A y \in S : x <= y
         IN  <<m>> \o SortedSeq(S \ {m})

RECURSIVE ReverseSeq(_)
ReverseSeq(s) == IF s = <<>> THEN <<>> ELSE ReverseSeq(Tail(s)) \o <<Head(s)>>

Take(s, n) == IF Len(s) <= n THEN s ELSE SubSeq(s, 1, n)

\* a fetch that forgets ORDER BY id (rows come back in another order)
FetchUnorderedBatch(mc, batch_size, after_id) ==
    ReverseSeq(Take(SortedSeq({ i \in Unprocessed(mc) : i > after_id }), batch_size))

\* a fetch without the processed = FALSE filter
FetchAnyBatch(mc, batch_size, after_id) ==
    Take(SortedSeq({ i \in Ids(mc) : i > after_id }), batch_size)

\* a fetch with ORDER BY id DESC: the newest rows first
FetchNewestFirst(mc, batch_size, after_id) ==
    Take(ReverseSeq(SortedSeq({ i \in Unprocessed(mc) : i > after_id })), batch_size)

\* a fetch that does not page forward: the id > after_id condition is missing
FetchIgnoringAfterId(mc, batch_size, after_id) ==
    Take(SortedSeq(Unprocessed(mc)), batch_size)

\* SELECT ... WHERE processed = FALSE AND id > after_id ORDER BY id LIMIT n
fetch_unprocessed_batch(mc, batch_size, after_id) ==
    Take(SortedSeq({ i \in Unprocessed(mc) : i > after_id }), batch_size)

count_unprocessed(mc) == Cardinality(Unprocessed(mc))

\* an UPDATE whose WHERE clause takes every row up to the id
MarkUpToId(t, id) == t \cup 1..id

\* UPDATE member_changes SET processed = TRUE WHERE id = %s
mark_as_processed(t, id) == t \cup {id}

\* a commit that is never sent: the UPDATE stays in the open transaction
CommitDropped(mc, t) == mc

\* conn.commit(): the UPDATEs of the open transaction become durable
Commit(mc, t) ==
    [ i \in Ids(mc) |-> [mc[i] EXCEPT !.processed = (mc[i].processed \/ i \in t)] ]

\* a failure path that resets the flag of the failed row to have it retried
ResetFailedRow(mc, id) == [mc EXCEPT ![id].processed = FALSE]

\* conn.rollback() for row id: uncommitted UPDATEs are dropped, committed rows stay
rollback(mc, id) == mc

AttemptRow(id, name, endpoint, code, message) ==
    [ member_change_id |-> id, service_name |-> name, service_endpoint |-> endpoint,
      response_code |-> code, response_message |-> message ]

\* an insert executed twice
LogTwice(lg, id, name, endpoint, code, message) ==
    lg \o << AttemptRow(id, name, endpoint, code, message),
             AttemptRow(id, name, endpoint, code, message) >>

\* INSERT INTO member_changes_processing_log ... ; commit
log_processing_error(lg, id, name, endpoint, code, message) ==
    Append(lg, AttemptRow(id, name, endpoint, code, message))

\* a lookup in the routes as they were when the process started
LookupStartupRoutes(se, change_type) ==
    IF change_type = "status"
    THEN [name |-> "status", endpoint |-> StatusEndpoint]
    ELSE NoService

\* SELECT name, endpoint FROM service_endpoints WHERE name = ...
get_service_for_change(se, change_type) ==
    IF \E r \in se : r.name = change_type
    THEN CHOOSE r \in se : r.name = change_type
    ELSE NoService

(* --------------------------- process_row ------------------------------ *)
\* a success test that takes every status below 500 for a success
IsSuccessBelow500(code) == code < 500

\* response.status_code != 200 is the failure branch
IsSuccess(code) == code = 200

SuccessMessage == "Successfully processed."

\* the failure branch logging the fixed text instead of response.text
MessageAlwaysFixed(resp) == SuccessMessage

\* the message logged with the response
AttemptMessage(resp) ==
    IF resp.status_code # 200 THEN resp.text ELSE SuccessMessage

\* a missing route treated as a success
NoRouteReturnsTrue == "mark"

\* no service found: process_row returns False, process_batch rolls back
NoRouteReturn == "rollback"

(* -------------------------- process_batch ----------------------------- *)
\* a failure that leaves the for loop (break)
BreakAfterFailure(rs, i) == Len(rs) + 1

\* after a failed row the for loop continues with the next row
NextAfterFailure(rs, i) == i + 1

(* ----------------- the file queue: names and files --------------------- *)
Msgs == 1..MaxMsgs
Consumers == {"c1", "c2"}

BASE_DIR == "shared"
QUEUE_DIR == "queues"
RESPONSE_DIR == "responses"
PROCESSING_DIR == "processing"

\* file names: (prefix, id, suffix)
TmpName(id) == <<".tmp_", id, "">>
JsonName(id) == <<"", id, ".json">>
TmpRespName(id) == <<".tmp_resp_", id, "">>

\* os.path.join(dir, name), os.path.basename(path)
Path(dir, name) == <<dir>> \o name
basename(path) == Tail(path)

\* filename.replace(".json", ""), on a name glob("*.json") returned
MsgIdOf(filename) == filename[2]

\* a producer that writes the message where the consumer looks for it
TmpInQueueDir(id) == Path(QUEUE_DIR, JsonName(id))

tmp_path(id) == Path(BASE_DIR, TmpName(id))
final_path(id) == Path(QUEUE_DIR, JsonName(id))
resp_path(id) == Path(RESPONSE_DIR, JsonName(id))
processing_path(filename) == Path(PROCESSING_DIR, filename)

tmp_resp(id) == Path(BASE_DIR, TmpRespName(id))
final_resp(filename) == Path(RESPONSE_DIR, filename)

Exists(f, path) == path \in DOMAIN f

\* open(path, 'w'): the file exists, nothing of the JSON flushed yet
OpenForWrite(f, path, json) ==
    [ q \in DOMAIN f \cup {path} |->
        IF q = path THEN [complete |-> FALSE, mtime |-> 0, json |-> json] ELSE f[q] ]

\* json.dump, flush, fsync, close
DumpAndSync(f, path, t) == [f EXCEPT ![path].complete = TRUE, ![path].mtime = t]

\* a removal that sweeps the response directory along with the file
RemoveAndSweepResponses(f, path) ==
    [ q \in { r \in DOMAIN f : r # path /\ r[1] # RESPONSE_DIR } |-> f[q] ]

\* os.remove(path)
Remove(f, path) == [ q \in DOMAIN f \ {path} |-> f[q] ]

\* a move that copies and leaves the source in place
CopyWithoutUnlink(f, src, dst) ==
    [ q \in DOMAIN f \cup {dst} |-> IF q = dst THEN f[src] ELSE f[q] ]

\* os.rename within one filesystem: atomic, replaces dst
Rename(f, src, dst) ==
    [ q \in (DOMAIN f \ {src}) \cup {dst} |-> IF q = dst THEN f[src] ELSE f[q] ]

\* os.path.getmtime is asked only of the files listed in queues/: the time
\* of a file that left that directory is not kept
ForgetMtime(f, path) == [f EXCEPT ![path].mtime = 0]

\* a listing that takes in the files left under processing/ as well
GlobQueueAndProcessing(f) ==
    { q \in DOMAIN f : q[1] \in {QUEUE_DIR, PROCESSING_DIR} /\ q[4] = ".json" }

\* glob.glob(os.path.join(QUEUE_DIR, "*.json"))
glob_queue(f) == { q \in DOMAIN f : q[1] = QUEUE_DIR /\ q[4] = ".json" }

\* the listing sorted by file name
LowestName(f, files) ==
    CHOOSE q \in files : \A o \in files : q[3] <= o[3]

\* queue_files.sort(key=os.path.getmtime); queue_files[0]
Oldest(f, files) ==
    CHOOSE q \in files : \A o \in files :
        f[q].mtime < f[o].mtime \/ (f[q].mtime = f[o].mtime /\ q[3] <= o[3])

\* send_message_async: {id, payload, timestamp}
Message(id) == [id |-> id, payload |-> "add"]

\* a response that does not carry the id of the message
ResultWithoutId(id) == [original_id |-> 0, status |-> "success"]

\* process_queue: result_data = {original_id, result, status, data}
result_data(id) == [original_id |-> id, status |-> "success"]

NoData == [original_id |-> 0, status |-> None]
NoReturn == [returned |-> FALSE, success |-> FALSE, data |-> NoData]

NoFiles == [q \in {} |-> NoData]

BusInit ==
    /\ fs = NoFiles
    /\ clock = 0
    /\ ppc = [m \in Msgs |-> "idle"]
    /\ expired = [m \in Msgs |-> FALSE]
    /\ ret = [m \in Msgs |-> NoReturn]
    /\ effector_answer = [m \in Msgs |-> 0]
    /\ row_processed = [m \in Msgs |-> FALSE]
    /\ cpc = [c \in Consumers |-> "list"]
    /\ msg_id = [c \in Consumers |-> 0]
    /\ holds = [c \in Consumers |-> 0]
    /\ nclaims = [m \in Msgs |-> 0]
    /\ published = [m \in Msgs |-> 0]
    /\ intime = [m \in Msgs |-> FALSE]
    /\ late = [m \in Msgs |-> FALSE]

(* ------------------ member store, controller, directory --------------- *)
Tags == 1..MaxTags
Statuses == {"active", "Active", "inactive"}
TagStatuses == {"ACTIVE", "INACTIVE"}
NoMember == [status |-> None, tags |-> <<>>]
NotApplied == [done |-> FALSE, board |-> {}]
\* the tag lists get_all_tags_for_member can return: tags 1..n, each ACTIVE or
\* INACTIVE
TagLists ==
    UNION { [1..n -> TagStatuses] : n \in 0..MaxTags }
TagEntry(tl, k) == [tag |-> k, status |-> tl[k]]

\* JSON values as they go over the wire
JsonString(s) == <<"string", s>>
JsonBool(b) == <<"boolean", IF b THEN "true" ELSE "false">>

EffInit ==
    /\ member = NoMember
    /\ effector = None
    /\ board = {}
    /\ board0 = {}
    /\ directory = JsonBool(TRUE)
    /\ epc = "unset"
    /\ ti = 0
    /\ sent = <<>>
    /\ answer = 0
    /\ napply = 0
    /\ once = NotApplied
    /\ partial = FALSE

(* --------------------------- hardware worker -------------------------- *)
Operations == {"add", "remove", "set_datetime", "get_datetime"}
\* an operation handle_message does not know
UnknownOperation == "reset"

ReaderInit ==
    /\ pending = <<>>
    /\ hpc = "idle"
    /\ hop = None
    /\ attempts = 0
    /\ replies = <<>>
    /\ nsub = 0

(* ------------------- main(): reconnection and the two loops ----------- *)
NoOutcome == [run |-> FALSE, mc |-> <<>>, log |-> <<>>, posts |-> <<>>]
NoInput == [mc |-> <<>>, se |-> {}, answers |-> <<>>]

BackoffInit ==
    /\ bpc = "connect"
    /\ backoff = INITIAL_BACKOFF
    /\ sleeps = <<>>
    /\ nsleeps = 0

LoopInit ==
    /\ lpc = "unset"
    /\ loop_in = NoInput
    /\ by_resume = NoOutcome
    /\ by_notify = NoOutcome

Dispatchers == {"d1", "d2"}

TwoInit ==
    /\ changes = <<>>
    /\ dpc = [d \in Dispatchers |-> "wait"]
    /\ dlast = [d \in Dispatchers |-> 0]
    /\ drows = [d \in Dispatchers |-> <<>>]
    /\ dri = [d \in Dispatchers |-> 0]
    /\ dtxn = [d \in Dispatchers |-> {}]
    /\ delivered = <<>>
    /\ npasses = [d \in Dispatchers |-> 0]

FifoInit ==
    /\ ffs = NoFiles
    /\ fclock = 0
    /\ fpc = "list"
    /\ fmsg = 0
    /\ flisted = {}
    /\ fhandled = <<>>

OrdInit ==
    /\ opc = "unset"
    /\ otags = <<>>
    /\ ochanges = <<>>
    /\ oboard = {}
    /\ olast = 0
    /\ orows = <<>>
    /\ ori = 0

MonitorInit ==
    /\ mpc = "start"
    /\ event_index = 0
    /\ last_event_index = 0
    /\ handed = {}

RouteInit ==
    /\ rtpc = "unset"
    /\ route_in = NoInput
    /\ first_pass = NoOutcome
    /\ second_pass = NoOutcome

Cur == rows[ri]
InRow == pc \in {"row", "post", "log", "mark", "commit", "rollback", "except"}

TypeOK ==
    /\ member_changes \in Seq([change : ChangeTypes, processed : BOOLEAN])
    /\ Len(member_changes) <= MaxRows
    /\ Len(processing_log) <= MaxLog
    /\ pc \in {"connect", "resume", "fetch", "row", "post", "log", "mark",
               "commit", "rollback", "except", "listen", "wait", "backoff"}
    /\ listening \in BOOLEAN
    /\ notifies \in 0..MaxRows
    /\ last_id \in 0..MaxRows
    /\ txn \subseteq Ids(member_changes)
    /\ InRow => ri \in 1..Len(rows)
    /\ lost200 \subseteq got200

DispatcherInit ==
    /\ member_changes = <<>>
    /\ service_endpoints = { [name |-> "status", endpoint |-> StatusEndpoint] }
    /\ processing_log = <<>>
    /\ pc = "connect"
    /\ listening = FALSE
    /\ notifies = 0
    /\ last_id = 0
    /\ rows = <<>>
    /\ ri = 0
    /\ service = NoService
    /\ response = NoResponse
    /\ txn = {}
    /\ faults = 0
    /\ lastPost = 0
    /\ passLen = 0
    /\ attempted = {}
    /\ got200 = {}
    /\ lost200 = {}

Init ==
    /\ DispatcherInit
    /\ BusInit
    /\ EffInit
    /\ ReaderInit
    /\ BackoffInit
    /\ LoopInit
    /\ RouteInit
    /\ TwoInit
    /\ FifoInit
    /\ OrdInit
    /\ MonitorInit

(* A specification of one component leaves the other components out: they
   are not started, and their variables hold no value. *)
\* no dispatcher process
DispatcherUnset ==
    /\ member_changes = 0 /\ service_endpoints = 0 /\ processing_log = 0 /\ pc = 0
    /\ listening = 0 /\ notifies = 0 /\ last_id = 0 /\ rows = 0
    /\ ri = 0 /\ service = 0 /\ response = 0 /\ txn = 0
    /\ faults = 0 /\ lastPost = 0 /\ passLen = 0 /\ attempted = 0
    /\ got200 = 0 /\ lost200 = 0

\* no queue directory, no producer and no consumer
BusUnset ==
    /\ fs = 0 /\ clock = 0 /\ ppc = 0 /\ expired = 0
    /\ ret = 0 /\ effector_answer = 0 /\ row_processed = 0 /\ cpc = 0
    /\ msg_id = 0 /\ holds = 0 /\ nclaims = 0 /\ published = 0
    /\ intime = 0 /\ late = 0

\* none of the other components
RestUnset ==
    /\ member = 0 /\ effector = 0 /\ board = 0 /\ board0 = 0
    /\ directory = 0 /\ epc = 0 /\ ti = 0 /\ sent = 0
    /\ answer = 0 /\ napply = 0 /\ once = 0 /\ partial = 0
    /\ pending = 0 /\ hpc = 0 /\ hop = 0 /\ attempts = 0
    /\ replies = 0 /\ nsub = 0 /\ bpc = 0 /\ backoff = 0
    /\ sleeps = 0 /\ nsleeps = 0 /\ lpc = 0 /\ loop_in = 0
    /\ by_resume = 0 /\ by_notify = 0 /\ rtpc = 0 /\ route_in = 0
    /\ first_pass = 0 /\ second_pass = 0 /\ changes = 0 /\ dpc = 0
    /\ dlast = 0 /\ drows = 0 /\ dri = 0 /\ dtxn = 0
    /\ delivered = 0 /\ npasses = 0 /\ ffs = 0 /\ fclock = 0
    /\ fpc = 0 /\ fmsg = 0 /\ flisted = 0 /\ fhandled = 0
    /\ opc = 0 /\ otags = 0 /\ ochanges = 0 /\ oboard = 0
    /\ olast = 0 /\ orows = 0 /\ ori = 0 /\ mpc = 0
    /\ event_index = 0 /\ last_event_index = 0 /\ handed = 0

\* the dispatcher and its database
DispatcherAlone == DispatcherInit /\ BusUnset /\ RestUnset

\* the producers and consumers of the file queue
BusAlone == DispatcherUnset /\ BusInit /\ RestUnset

(* ------------------------------ helpers ------------------------------- *)
ResetRow ==
    /\ service' = NoService
    /\ response' = NoResponse

\* the row being processed has been answered 200 in this attempt
Answered200 == InRow /\ response.status_code = 200

Lose200 ==
    lost200' = IF Answered200 /\ ~member_changes[Cur].processed
               THEN lost200 \cup {Cur} ELSE lost200

\* a fetch pass begins: last_id = 0
StartPass ==
    /\ last_id' = 0
    /\ rows' = <<>>
    /\ ri' = 0
    /\ attempted' = {}
    /\ passLen' = Len(member_changes)
    /\ pc' = "fetch"

NoPass ==
    /\ last_id' = 0
    /\ rows' = <<>>
    /\ ri' = 0
    /\ attempted' = {}
    /\ passLen' = 0

\* the for loop of process_batch moves to index n; past the end, the while
\* loop of the pass sets last_id and fetches again or ends the pass
Advance(n) ==
    /\ ResetRow
    /\ IF n <= Len(rows)
       THEN /\ ri' = n
            /\ pc' = "row"
            /\ UNCHANGED <<rows, last_id>>
       ELSE /\ ri' = 0
            /\ rows' = <<>>
            /\ last_id' = rows[Len(rows)]
            /\ pc' = IF Len(rows) < BATCH_SIZE THEN "listen" ELSE "fetch"

\* an exception on the main connection leaves the with block: main() logs
\* it, closes the connection and sleeps before reconnecting
MainConnectionError ==
    /\ faults < MaxFaults
    /\ faults' = faults + 1
    /\ pc' = "backoff"
    /\ listening' = FALSE
    /\ notifies' = 0
    /\ txn' = {}
    /\ NoPass
    /\ ResetRow
    /\ UNCHANGED <<dbvars, histvars, bus, rest>>

(* --------------------------- environment ------------------------------ *)
\* a portal or sync job inserts a change; the trigger notifies listeners
InsertChange(c) ==
    /\ Len(member_changes) < MaxRows
    /\ member_changes' = Append(member_changes, [change |-> c, processed |-> FALSE])
    /\ notifies' = IF listening THEN notifies + 1 ELSE notifies
    /\ UNCHANGED <<service_endpoints, processing_log, pc, listening, passvars,
                   rowvars, txn, faults, histvars, bus, rest>>

\* an operator registers the effector of a change type
AddRoute(n) ==
    /\ \A r \in service_endpoints : r.name # n
    /\ service_endpoints' = service_endpoints \cup {[name |-> n, endpoint |-> EndpointOf(n)]}
    /\ UNCHANGED <<member_changes, processing_log, pc, listening, notifies,
                   passvars, rowvars, txn, faults, histvars, bus, rest>>

\* the dispatcher process is killed and started again
Crash ==
    /\ pc # "connect"
    /\ faults < MaxFaults
    /\ faults' = faults + 1
    /\ pc' = "connect"
    /\ listening' = FALSE
    /\ notifies' = 0
    /\ txn' = {}
    /\ NoPass
    /\ ResetRow
    /\ lastPost' = 0
    /\ Lose200
    /\ UNCHANGED <<dbvars, got200, bus, rest>>

(* ------------------------------ main() -------------------------------- *)
\* a main() that issues LISTEN right after connecting
ListenBeforeResume == "listen"

\* after get_db_connection, main() calls resume_unprocessed, then LISTEN
AfterConnect == "resume"

\* conn.notifies.clear() taking one notification only
PopOneNotify(n) == n - 1

\* conn.poll(); conn.notifies.clear(): every queued notification is dropped
ClearNotifies(n) == 0

\* a timeout path that only re-issues LISTEN
TimeoutOnlyListens(unprocessed) == "listen"

\* select() timed out: resume_unprocessed if count_unprocessed > 0
AfterTimeout(unprocessed) == IF unprocessed > 0 THEN "resume" ELSE "listen"

Connect ==
    /\ pc = "connect"
    /\ pc' = AfterConnect
    /\ UNCHANGED <<dbvars, listening, notifies, passvars, rowvars, txn, faults, histvars,
                   bus, rest>>

ConnectFails ==
    /\ pc = "connect"
    /\ faults < MaxFaults
    /\ faults' = faults + 1
    /\ pc' = "backoff"
    /\ UNCHANGED <<dbvars, listening, notifies, passvars, rowvars, txn, histvars,
                   bus, rest>>

Sleep ==
    /\ pc = "backoff"
    /\ pc' = "connect"
    /\ UNCHANGED <<dbvars, listening, notifies, passvars, rowvars, txn, faults, histvars,
                   bus, rest>>

Listen ==
    /\ pc = "listen"
    /\ listening' = TRUE
    /\ pc' = "wait"
    /\ NoPass
    /\ UNCHANGED <<dbvars, notifies, rowvars, txn, faults, histvars, bus, rest>>

ListenFails == pc = "listen" /\ MainConnectionError

\* select() times out: count_unprocessed, then resume_unprocessed if any
SelectTimeout ==
    /\ pc = "wait"
    /\ notifies = 0
    /\ pc' = AfterTimeout(count_unprocessed(member_changes))
    /\ UNCHANGED <<dbvars, listening, notifies, passvars, rowvars, txn, faults, histvars,
                   bus, rest>>

SelectTimeoutFails == pc = "wait" /\ notifies = 0 /\ MainConnectionError

(* ------------------------- resume_unprocessed ------------------------- *)
ResumeUnprocessed ==
    /\ pc = "resume"
    /\ IF count_unprocessed(member_changes) = 0
       THEN NoPass /\ pc' = "listen"
       ELSE StartPass
    /\ UNCHANGED <<dbvars, listening, notifies, rowvars, txn, faults, histvars, bus, rest>>

ResumeUnprocessedFails == pc = "resume" /\ MainConnectionError

(* -------------------- process_pending_notifications ------------------- *)
ProcessPendingNotifications ==
    /\ pc = "wait"
    /\ notifies > 0
    /\ notifies' = ClearNotifies(notifies)
    /\ StartPass
    /\ UNCHANGED <<dbvars, listening, rowvars, txn, faults, histvars, bus, rest>>

ProcessPendingNotificationsFails == pc = "wait" /\ notifies > 0 /\ MainConnectionError

(* ---------------------- the fetch of a pass --------------------------- *)
Fetch ==
    /\ pc = "fetch"
    /\ LET rs == fetch_unprocessed_batch(member_changes, BATCH_SIZE, last_id)
       IN  IF rs = <<>>
           THEN /\ pc' = "listen"
                /\ UNCHANGED <<rows, ri>>
           ELSE /\ rows' = rs
                /\ ri' = 1
                /\ pc' = "row"
    /\ UNCHANGED <<dbvars, listening, notifies, last_id, passLen, attempted,
                   rowvars, txn, faults, histvars, bus, rest>>

FetchFails == pc = "fetch" /\ MainConnectionError

(* --------------------------- process_row ------------------------------ *)
GetService ==
    /\ pc = "row"
    /\ attempted' = attempted \cup {Cur}
    /\ LET svc == get_service_for_change(service_endpoints, member_changes[Cur].change)
       IN  IF svc.name = None
           THEN /\ pc' = NoRouteReturn
                /\ UNCHANGED service
           ELSE /\ service' = svc
                /\ pc' = "post"
    /\ UNCHANGED <<dbvars, listening, notifies, last_id, rows, ri, passLen,
                   response, txn, faults, histvars, bus, rest>>

\* the connection opened by get_service_for_change fails
GetServiceRaises ==
    /\ pc = "row"
    /\ faults < MaxFaults
    /\ faults' = faults + 1
    /\ attempted' = attempted \cup {Cur}
    /\ pc' = "except"
    /\ UNCHANGED <<dbvars, listening, notifies, last_id, rows, ri, passLen,
                   rowvars, txn, histvars, bus, rest>>

\* requests.post returns a response
Post ==
    /\ pc = "post"
    /\ Len(processing_log) < MaxLog
    /\ \E r \in Responses :
        /\ response' = r
        /\ got200' = IF r.status_code = 200 THEN got200 \cup {Cur} ELSE got200
    /\ lastPost' = Cur
    /\ pc' = "log"
    /\ UNCHANGED <<dbvars, listening, notifies, passvars, service, txn, faults, lost200,
                   bus, rest>>

\* requests.post raises: the effector is unreachable
PostRaises ==
    /\ pc = "post"
    /\ lastPost' = Cur
    /\ pc' = "except"
    /\ UNCHANGED <<dbvars, listening, notifies, passvars, rowvars, txn, faults,
                   got200, lost200, bus, rest>>

\* log_processing_error with the response, then return False or True
LogAttempt ==
    /\ pc = "log"
    /\ processing_log' = log_processing_error(processing_log, Cur, service.name,
                             service.endpoint, response.status_code,
                             AttemptMessage(response))
    /\ pc' = IF IsSuccess(response.status_code) THEN "mark" ELSE "rollback"
    /\ UNCHANGED <<member_changes, service_endpoints, listening, notifies,
                   passvars, rowvars, txn, faults, histvars, bus, rest>>

\* log_processing_error raises; the insert may or may not have been committed
LogAttemptRaises(committed) ==
    /\ pc = "log"
    /\ faults < MaxFaults
    /\ faults' = faults + 1
    /\ processing_log' =
          IF committed
          THEN log_processing_error(processing_log, Cur, service.name,
                   service.endpoint, response.status_code, AttemptMessage(response))
          ELSE processing_log
    /\ pc' = "except"
    /\ Lose200
    /\ UNCHANGED <<member_changes, service_endpoints, listening, notifies,
                   passvars, rowvars, txn, lastPost, got200, bus, rest>>

(* -------------------------- process_batch ----------------------------- *)
MarkAsProcessed ==
    /\ pc = "mark"
    /\ txn' = mark_as_processed(txn, Cur)
    /\ pc' = "commit"
    /\ UNCHANGED <<dbvars, listening, notifies, passvars, rowvars, faults, histvars,
                   bus, rest>>

MarkAsProcessedRaises ==
    /\ pc = "mark"
    /\ faults < MaxFaults
    /\ faults' = faults + 1
    /\ pc' = "except"
    /\ Lose200
    /\ UNCHANGED <<dbvars, listening, notifies, passvars, rowvars, txn, lastPost, got200,
                   bus, rest>>

CommitProcessed ==
    /\ pc = "commit"
    /\ member_changes' = Commit(member_changes, txn)
    /\ txn' = {}
    /\ Advance(ri + 1)
    /\ got200' = got200 \cap Unprocessed(member_changes')
    /\ lost200' = lost200 \cap Unprocessed(member_changes')
    /\ UNCHANGED <<service_endpoints, processing_log, listening, notifies,
                   passLen, attempted, faults, lastPost, bus, rest>>

\* conn.commit() raises; the server may or may not have applied the commit
CommitRaises(applied) ==
    /\ pc = "commit"
    /\ faults < MaxFaults
    /\ faults' = faults + 1
    /\ IF applied
       THEN /\ member_changes' = Commit(member_changes, txn)
            /\ txn' = {}
            /\ got200' = got200 \cap Unprocessed(member_changes')
            /\ lost200' = lost200 \cap Unprocessed(member_changes')
       ELSE /\ Lose200
            /\ UNCHANGED <<member_changes, txn, got200>>
    /\ pc' = "except"
    /\ UNCHANGED <<service_endpoints, processing_log, listening, notifies,
                   passvars, rowvars, lastPost, bus, rest>>

\* process_row returned False: conn.rollback(), next row
RollbackAfterFalse ==
    /\ pc = "rollback"
    /\ txn' = {}
    /\ member_changes' = rollback(member_changes, Cur)
    /\ Advance(NextAfterFailure(rows, ri))
    /\ UNCHANGED <<service_endpoints, processing_log, listening, notifies,
                   passLen, attempted, faults, histvars, bus, rest>>

\* the except block: conn.rollback(), next row
RollbackAfterException ==
    /\ pc = "except"
    /\ txn' = {}
    /\ member_changes' = rollback(member_changes, Cur)
    /\ Advance(NextAfterFailure(rows, ri))
    /\ UNCHANGED <<service_endpoints, processing_log, listening, notifies,
                   passLen, attempted, faults, histvars, bus, rest>>

\* conn.rollback() itself raises: the exception leaves process_batch
RollbackFails == pc \in {"rollback", "except"} /\ MainConnectionError

Next ==
    \/ \E c \in ChangeTypes : InsertChange(c)
    \/ AddRoute("mystery")
    \/ Crash
    \/ Connect
    \/ ConnectFails
    \/ Sleep
    \/ Listen
    \/ ListenFails
    \/ SelectTimeout
    \/ SelectTimeoutFails
    \/ ResumeUnprocessed
    \/ ResumeUnprocessedFails
    \/ ProcessPendingNotifications
    \/ ProcessPendingNotificationsFails
    \/ Fetch
    \/ FetchFails
    \/ GetService
    \/ GetServiceRaises
    \/ Post
    \/ PostRaises
    \/ LogAttempt
    \/ \E committed \in BOOLEAN : LogAttemptRaises(committed)
    \/ MarkAsProcessed
    \/ MarkAsProcessedRaises
    \/ CommitProcessed
    \/ \E applied \in BOOLEAN : CommitRaises(applied)
    \/ RollbackAfterFalse
    \/ RollbackAfterException
    \/ RollbackFails

Spec == DispatcherAlone /\ [][Next]_vars

(* ------------- the dispatcher with an effector that answers 200 ------- *)
Ok200 == CHOOSE r \in Responses : r.status_code = 200

\* requests.post returns 200
PostAnswered200 ==
    /\ pc = "post"
    /\ response' = Ok200
    /\ got200' = got200 \cup {Cur}
    /\ lastPost' = Cur
    /\ pc' = "log"
    /\ UNCHANGED <<dbvars, listening, notifies, passvars, service, txn, faults, lost200,
                   bus, rest>>

\* the steps the running process takes by itself: every call returns, the
\* select() returns after 60 s at the latest, the sleep ends
DispatcherStep ==
    \/ Connect
    \/ Sleep
    \/ Listen
    \/ SelectTimeout
    \/ ResumeUnprocessed
    \/ ProcessPendingNotifications
    \/ Fetch
    \/ GetService
    \/ PostAnswered200
    \/ LogAttempt
    \/ MarkAsProcessed
    \/ CommitProcessed
    \/ RollbackAfterFalse
    \/ RollbackAfterException

FairNext ==
    \/ \E c \in ChangeTypes : InsertChange(c)
    \/ AddRoute("mystery")
    \/ Crash
    \/ Connect
    \/ ConnectFails
    \/ Sleep
    \/ Listen
    \/ ListenFails
    \/ SelectTimeout
    \/ SelectTimeoutFails
    \/ ResumeUnprocessed
    \/ ResumeUnprocessedFails
    \/ ProcessPendingNotifications
    \/ ProcessPendingNotificationsFails
    \/ Fetch
    \/ FetchFails
    \/ GetService
    \/ GetServiceRaises
    \/ PostAnswered200
    \/ LogAttempt
    \/ \E committed \in BOOLEAN : LogAttemptRaises(committed)
    \/ MarkAsProcessed
    \/ MarkAsProcessedRaises
    \/ CommitProcessed
    \/ \E applied \in BOOLEAN : CommitRaises(applied)
    \/ RollbackAfterFalse
    \/ RollbackAfterException
    \/ RollbackFails

FairSpec == DispatcherAlone /\ [][FairNext]_vars /\ WF_vars(DispatcherStep)

(* ------------------- the effector chain above the queue -------------- *)
Effectors == {"status", "access"}

\* an endpoint that answers 200 whatever the producer call returned
EndpointIgnoresFailure(success) == 200

\* DH2RFID add_entry / remove_entry: HTTPException(500) if not success
EndpointAnswer(success) == IF success THEN 200 ELSE 500

\* response.raise_for_status() raises for 4xx and 5xx
raise_for_status(code) == code >= 400

\* DHStatus: a raising sub-call returns False, and change_status answers 500
change_status(code) == IF raise_for_status(code) THEN 500 ELSE 200

\* DHAccess: response.status_code != 200 raises HTTPException(500)
change_access(code) == IF code # 200 THEN 500 ELSE 200

EffectorAnswer(e, code) ==
    IF e = "status" THEN change_status(code) ELSE change_access(code)

\* the answer travels up: endpoint, effector, dispatcher (process_row)
Surface(m, code) ==
    \E e \in Effectors :
        /\ effector_answer' = [effector_answer EXCEPT ![m] = EffectorAnswer(e, code)]
        /\ row_processed' = [row_processed EXCEPT ![m] = IsSuccess(EffectorAnswer(e, code))]

(* -------------------- producer: DH2RFID / DH2AD ----------------------- *)
Returned(success, data) == [returned |-> TRUE, success |-> success, data |-> data]

\* an effector calls the endpoint: msg_id = str(uuid.uuid4()), and
\* send_message_async opens tmp_path for writing
Call(m) ==
    /\ ppc[m] = "idle"
    /\ \A k \in 1..(m - 1) : ppc[k] # "idle"
    /\ fs' = OpenForWrite(fs, tmp_path(m), Message(m))
    /\ ppc' = [ppc EXCEPT ![m] = "dump"]
    /\ UNCHANGED <<dispatcher, rest, clock, expired, ret, effector_answer,
                   row_processed, consumers, bushist>>

\* a sub-call before the queue fails (member store, DH2AD): the effector stops
SubcallFails(m) ==
    /\ ppc[m] = "idle"
    /\ \A k \in 1..(m - 1) : ppc[k] # "idle"
    /\ ppc' = [ppc EXCEPT ![m] = "nocall"]
    /\ Surface(m, 500)
    /\ UNCHANGED <<dispatcher, rest, fs, clock, expired, ret, consumers, bushist>>

\* json.dump, flush, fsync
DumpMessage(m) ==
    /\ ppc[m] = "dump"
    /\ clock' = clock + 1
    /\ fs' = DumpAndSync(fs, tmp_path(m), clock')
    /\ ppc' = [ppc EXCEPT ![m] = "rename"]
    /\ UNCHANGED <<dispatcher, rest, expired, ret, effector_answer, row_processed,
                   consumers, bushist>>

\* os.rename(tmp_path, final_path); start_time = time.time()
RenameToQueue(m) ==
    /\ ppc[m] = "rename"
    /\ fs' = Rename(fs, tmp_path(m), final_path(m))
    /\ ppc' = [ppc EXCEPT ![m] = "wait"]
    /\ UNCHANGED <<dispatcher, rest, clock, expired, ret, effector_answer,
                   row_processed, consumers, bushist>>

\* the producer process dies before the rename
ProducerCrash(m) ==
    /\ ppc[m] \in {"dump", "rename"}
    /\ ppc' = [ppc EXCEPT ![m] = "crashed"]
    /\ Surface(m, 500)
    /\ UNCHANGED <<dispatcher, rest, fs, clock, expired, ret, consumers, bushist>>

\* the timeout of the call passes while the producer sleeps between polls
Expire(m) ==
    /\ ppc[m] = "wait"
    /\ ~expired[m]
    /\ expired' = [expired EXCEPT ![m] = TRUE]
    /\ UNCHANGED <<dispatcher, rest, fs, clock, ppc, ret, effector_answer,
                   row_processed, consumers, bushist>>

\* time.time() - start_time < timeout holds: check_responses([msg_id]); a
\* response file there is read and removed, and the call returns True, data;
\* else time.sleep(0.5)
CheckResponses(m) ==
    /\ ppc[m] = "wait"
    /\ ~expired[m]
    /\ Exists(fs, resp_path(m))
    /\ fs' = Remove(fs, resp_path(m))
    /\ ppc' = [ppc EXCEPT ![m] = "returned"]
    /\ ret' = [ret EXCEPT ![m] = Returned(TRUE, fs[resp_path(m)].json)]
    /\ Surface(m, EndpointAnswer(TRUE))
    /\ UNCHANGED <<dispatcher, rest, clock, expired, consumers, bushist>>

\* the while condition fails: return False, None
TimeOut(m) ==
    /\ ppc[m] = "wait"
    /\ expired[m]
    /\ ppc' = [ppc EXCEPT ![m] = "returned"]
    /\ ret' = [ret EXCEPT ![m] = Returned(FALSE, NoData)]
    /\ Surface(m, EndpointAnswer(FALSE))
    /\ UNCHANGED <<dispatcher, rest, fs, clock, expired, consumers, bushist>>

(* ---------------- consumer: DHRFIDReader / DHADController ------------- *)
HoldingPcs == {"handle", "dump_resp", "rename_resp", "cleanup"}

\* queue_files = glob.glob(...); queue_files.sort(key=os.path.getmtime);
\* an empty listing sleeps and lists again, else queue_files[0] is picked.
\* (A listed file that is gone when getmtime looks at it makes the sort
\* raise outside any try and ends process_queue: a ConsumerStops here.)
PickOldest(c) ==
    /\ cpc[c] = "list"
    /\ glob_queue(fs) # {}
    /\ msg_id' = [msg_id EXCEPT ![c] = MsgIdOf(basename(Oldest(fs, glob_queue(fs))))]
    /\ cpc' = [cpc EXCEPT ![c] = "rename"]
    /\ UNCHANGED <<dispatcher, rest, fs, clock, producers, bushist>>

\* os.rename(current_file, processing_path); FileNotFoundError: continue
Claim(c) ==
    /\ cpc[c] = "rename"
    /\ IF Exists(fs, final_path(msg_id[c]))
       THEN /\ fs' = ForgetMtime(Rename(fs, final_path(msg_id[c]),
                                        processing_path(JsonName(msg_id[c]))),
                                 processing_path(JsonName(msg_id[c])))
            /\ holds' = [holds EXCEPT ![c] = msg_id[c]]
            /\ nclaims' = [nclaims EXCEPT ![msg_id[c]] = @ + 1]
            /\ cpc' = [cpc EXCEPT ![c] = "handle"]
            /\ UNCHANGED msg_id
       ELSE /\ cpc' = [cpc EXCEPT ![c] = "list"]
            /\ msg_id' = [msg_id EXCEPT ![c] = 0]
            /\ UNCHANGED <<fs, holds, nclaims>>
    /\ UNCHANGED <<dispatcher, rest, clock, producers, published, intime, late>>

\* with open(processing_path) as f: data = json.load(f); message_data =
\* handle_message(...) returns; open(tmp_resp, 'w')
HandleMessage(c) ==
    /\ cpc[c] = "handle"
    /\ fs' = OpenForWrite(fs, tmp_resp(msg_id[c]), result_data(msg_id[c]))
    /\ cpc' = [cpc EXCEPT ![c] = "dump_resp"]
    /\ UNCHANGED <<dispatcher, rest, clock, producers, msg_id, bushist>>

\* the read or handle_message raises (the board or the directory does not
\* answer): except logs, finally cleans up
HandleMessageRaises(c) ==
    /\ cpc[c] = "handle"
    /\ cpc' = [cpc EXCEPT ![c] = "cleanup"]
    /\ UNCHANGED <<dispatcher, rest, fs, clock, producers, msg_id, bushist>>

\* json.dump(result_data, f), flush, fsync
DumpResp(c) ==
    /\ cpc[c] = "dump_resp"
    /\ fs' = DumpAndSync(fs, tmp_resp(msg_id[c]), 0)
    /\ cpc' = [cpc EXCEPT ![c] = "rename_resp"]
    /\ UNCHANGED <<dispatcher, rest, clock, producers, msg_id, bushist>>

\* os.rename(tmp_resp, final_resp)
PublishResp(c) ==
    /\ cpc[c] = "rename_resp"
    /\ fs' = Rename(fs, tmp_resp(msg_id[c]), final_resp(JsonName(msg_id[c])))
    /\ published' = [published EXCEPT ![msg_id[c]] = @ + 1]
    /\ intime' = [intime EXCEPT ![msg_id[c]] = @ \/ ~expired[msg_id[c]]]
    /\ late' = [late EXCEPT ![msg_id[c]] = @ \/ ppc[msg_id[c]] = "returned"]
    /\ cpc' = [cpc EXCEPT ![c] = "cleanup"]
    /\ UNCHANGED <<dispatcher, rest, clock, producers, msg_id, holds, nclaims>>

\* finally: if os.path.exists(processing_path): os.remove(processing_path)
Cleanup(c) ==
    /\ cpc[c] = "cleanup"
    /\ fs' = IF Exists(fs, processing_path(JsonName(msg_id[c])))
             THEN Remove(fs, processing_path(JsonName(msg_id[c])))
             ELSE fs
    /\ cpc' = [cpc EXCEPT ![c] = "list"]
    /\ msg_id' = [msg_id EXCEPT ![c] = 0]
    /\ holds' = [holds EXCEPT ![c] = 0]
    /\ UNCHANGED <<dispatcher, rest, clock, producers, nclaims, published, intime, late>>

\* the consumer process is stopped or killed
ConsumerStops(c) ==
    /\ cpc[c] # "dead"
    /\ cpc' = [cpc EXCEPT ![c] = "dead"]
    /\ msg_id' = [msg_id EXCEPT ![c] = 0]
    /\ holds' = [holds EXCEPT ![c] = 0]
    /\ UNCHANGED <<dispatcher, rest, fs, clock, producers, nclaims, published, intime, late>>

\* the consumer process is started again: process_queue from the top
ConsumerStarts(c) ==
    /\ cpc[c] = "dead"
    /\ cpc' = [cpc EXCEPT ![c] = "list"]
    /\ UNCHANGED <<dispatcher, rest, fs, clock, producers, msg_id, bushist>>

BusNext ==
    \/ \E m \in Msgs :
        \/ Call(m)
        \/ SubcallFails(m)
        \/ DumpMessage(m)
        \/ RenameToQueue(m)
        \/ ProducerCrash(m)
        \/ Expire(m)
        \/ CheckResponses(m)
        \/ TimeOut(m)
    \/ \E c \in Consumers :
        \/ PickOldest(c)
        \/ Claim(c)
        \/ HandleMessage(c)
        \/ HandleMessageRaises(c)
        \/ DumpResp(c)
        \/ PublishResp(c)
        \/ Cleanup(c)
        \/ ConsumerStops(c)
        \/ ConsumerStarts(c)

BusSpec == BusAlone /\ [][BusNext]_vars

BusTypeOK ==
    /\ \A q \in DOMAIN fs : q[1] \in {BASE_DIR, QUEUE_DIR, PROCESSING_DIR, RESPONSE_DIR}
    /\ clock \in 0..MaxMsgs
    /\ \A m \in Msgs : ret[m].success => ret[m].returned
    /\ \A c \in Consumers : msg_id[c] \in 0..MaxMsgs /\ holds[c] \in {0, msg_id[c]}

(* ---------------- the Status and Access effectors --------------------- *)
\* member_status.lower(), on the values of Statuses
lower(s) == IF s = "Active" THEN "active" ELSE s

\* DHStatus: dh2ad_payload = {"username": ..., "enabled": change_type}
EnabledSent(change_type) == JsonString(change_type)

\* DHStatus: the add endpoint if change_type == "active", else the remove one
StatusTagOp(change_type) == IF change_type = "active" THEN "add" ELSE "remove"

\* DHStatus: only tags with status ACTIVE are sent
StatusSends(tag_status) == tag_status = "ACTIVE"

\* DHAccess: "add" if member_status.lower() == "active" else "remove"
access_operation(member_status) ==
    IF lower(member_status) = "active" THEN "add" ELSE "remove"

\* an Access effector that looks at the member's status only
AccessTagOpMemberOnly(op, tag_status) == op

\* DHAccess: if access_operation == "add" and tag_status == "ACTIVE": add;
\* else: remove
AccessTagOp(op, tag_status) ==
    IF op = "add" /\ tag_status = "ACTIVE" THEN "add" ELSE "remove"

\* a controller on which putting a card it holds takes the card away
PutCardToggles(b, tag) == IF tag \in b THEN b \ {tag} ELSE b \cup {tag}

\* DHRFIDReader perform_board_operation: board.put_card / board.delete_card
put_card(b, tag) == b \cup {tag}
delete_card(b, tag) == b \ {tag}
BoardOp(b, op, tag) == IF op = "add" THEN put_card(b, tag) ELSE delete_card(b, tag)

\* DH2AD set_member_enabled: the call into the directory is commented out
set_member_enabled(d, enabled) == d

AdRequest(enabled) ==
    [to |-> "DH2AD", op |-> "set_member_enabled", tag |-> 0, enabled |-> enabled]
RfidRequest(op, tag) ==
    [to |-> "DH2RFID", op |-> op, tag |-> tag, enabled |-> JsonString(None)]

TagInHand == TagEntry(member.tags, ti)
TagOpAt(k) ==
    IF effector = "status"
    THEN StatusTagOp(member.status)
    ELSE AccessTagOp(access_operation(member.status), member.tags[k])
SendsAt(k) == effector = "access" \/ StatusSends(member.tags[k])
TagOp == TagOpAt(ti)
Sends == SendsAt(ti)

\* the effector answers: 200 when every step went through, else 500
Answer(code) ==
    /\ answer' = code
    /\ epc' = "idle"
    /\ once' = IF code = 200 /\ ~once.done THEN [done |-> TRUE, board |-> board']
               ELSE once

\* the member, its tags and the change routed to one effector; the member
\* store is not written again afterwards
LoadMember ==
    /\ epc = "unset"
    /\ \E st \in Statuses, tl \in TagLists, b \in SUBSET Tags, e \in Effectors :
        /\ member' = [status |-> st, tags |-> tl]
        /\ board' = b
        /\ board0' = b
        /\ effector' = e
    /\ epc' = "idle"
    /\ UNCHANGED <<noteff, directory, ti, sent, answer, napply, once, partial>>

\* the dispatcher POSTs the change to the effector (again)
Dispatch ==
    /\ epc = "idle"
    /\ napply < MaxApply
    /\ napply' = napply + 1
    /\ epc' = "read"
    /\ sent' = <<>>
    /\ ti' = 0
    /\ answer' = 0
    /\ UNCHANGED <<noteff, member, effector, board, board0, directory, once, partial>>

\* get_member_identity (and get_member_status, get_member_tags)
ReadMember ==
    /\ epc = "read"
    /\ epc' = IF effector = "status" THEN "ad" ELSE "tags"
    /\ ti' = 1
    /\ UNCHANGED <<noteff, member, effector, board, board0, directory, sent, answer,
                   napply, once, partial>>

\* the member store does not answer: the effector answers 500
ReadMemberFails ==
    /\ epc = "read"
    /\ Answer(500)
    /\ UNCHANGED <<noteff, member, effector, board, board0, directory, ti, sent, napply,
                   partial>>

\* DHStatus: requests.post(dh2ad_url, json=dh2ad_payload) answered 200
PostDH2AD ==
    /\ epc = "ad"
    /\ sent' = Append(sent, AdRequest(EnabledSent(member.status)))
    /\ directory' = set_member_enabled(directory, EnabledSent(member.status))
    /\ epc' = "tags"
    /\ UNCHANGED <<noteff, member, effector, board, board0, ti, answer, napply, once, partial>>

\* the directory worker fails: return False, and change_status answers 500
PostDH2ADFails ==
    /\ epc = "ad"
    /\ sent' = Append(sent, AdRequest(EnabledSent(member.status)))
    /\ Answer(500)
    /\ UNCHANGED <<noteff, member, effector, board, board0, directory, ti, napply, partial>>

\* DHStatus: a tag that is not ACTIVE is passed over
SkipTag ==
    /\ epc = "tags"
    /\ ti <= Len(member.tags)
    /\ ~Sends
    /\ ti' = ti + 1
    /\ UNCHANGED <<noteff, member, effector, board, board0, directory, epc, sent,
                   answer, napply, once, partial>>

\* requests.post to the add or remove endpoint of DH2RFID answered 200: the
\* hardware worker has done the operation on the controller
PostDH2RFID ==
    /\ epc = "tags"
    /\ ti <= Len(member.tags)
    /\ Sends
    /\ sent' = Append(sent, RfidRequest(TagOp, TagInHand.tag))
    /\ board' = BoardOp(board, TagOp, TagInHand.tag)
    /\ ti' = ti + 1
    /\ UNCHANGED <<noteff, member, effector, board0, directory, epc, answer, napply, once, partial>>

\* the request fails or times out, the operation done on the controller or
\* not: the effector stops and answers 500
PostDH2RFIDFails(applied) ==
    /\ epc = "tags"
    /\ ti <= Len(member.tags)
    /\ Sends
    /\ sent' = Append(sent, RfidRequest(TagOp, TagInHand.tag))
    /\ board' = IF applied THEN BoardOp(board, TagOp, TagInHand.tag) ELSE board
    /\ partial' = (partial \/ applied \/ Len(sent) > 0)
    /\ Answer(500)
    /\ UNCHANGED <<noteff, member, effector, board0, directory, ti, napply>>

\* the loop over the tags is over: the effector answers 200
Return200 ==
    /\ epc = "tags"
    /\ ti > Len(member.tags)
    /\ board' = board
    /\ Answer(200)
    /\ UNCHANGED <<noteff, member, effector, board0, directory, ti, sent, napply, partial>>

EffNext ==
    \/ LoadMember
    \/ Dispatch
    \/ ReadMember
    \/ ReadMemberFails
    \/ PostDH2AD
    \/ PostDH2ADFails
    \/ SkipTag
    \/ PostDH2RFID
    \/ \E applied \in BOOLEAN : PostDH2RFIDFails(applied)
    \/ Return200

EffSpec == Init /\ [][EffNext]_vars

EffTypeOK ==
    /\ epc \in {"unset", "idle", "read", "ad", "tags"}
    /\ board \subseteq Tags
    /\ answer \in {0, 200, 500}
    /\ napply \in 0..MaxApply
    /\ ti \in 0..(MaxTags + 1)

(* ------------- DHRFIDReader: handling of one bus operation ------------ *)
Reply(op, status, timeouts) == [op |-> op, status |-> status, timeouts |-> timeouts]

\* process_queue: result_data = {"original_id": msg_id, "result": ...,
\* "status": "success", "data": message_data}
Wrapped(message_data) == [status |-> "success", data |-> message_data]

\* DH2RFID perform_board_operation: if msg_id in completed: return True, data
BoardOperationResult(resp) == [success |-> TRUE, data |-> resp]

\* the timeouts counted, up to MaxAttempts
CountTimeout(n) == IF n < MaxAttempts THEN n + 1 ELSE n

\* a producer sends a message with this operation
Submit(op) ==
    /\ nsub < MaxOps
    /\ nsub' = nsub + 1
    /\ pending' = Append(pending, op)
    /\ UNCHANGED <<notreader, hpc, hop, attempts, replies>>

\* process_queue claims the oldest message and calls handle_message
ClaimMessage ==
    /\ hpc = "idle"
    /\ pending # <<>>
    /\ hop' = Head(pending)
    /\ pending' = Tail(pending)
    /\ attempts' = 0
    /\ hpc' = IF Head(pending) \in {"add", "remove"} THEN "card"
              ELSE IF Head(pending) \in {"set_datetime", "get_datetime"}
                   THEN "controller"
                   ELSE "unknown"
    /\ UNCHANGED <<notreader, replies, nsub>>

\* perform_board_operation: board.put_card / board.delete_card returns
CardOp ==
    /\ hpc = "card"
    /\ replies' = Append(replies, Wrapped(Reply(hop, "success", attempts)))
    /\ hpc' = "idle"
    /\ hop' = None
    /\ UNCHANGED <<notreader, pending, attempts, nsub>>

\* the board call raises: handle_message raises, process_queue logs the
\* exception and removes the message; nothing is written
CardOpTimesOut ==
    /\ hpc = "card"
    /\ hpc' = "idle"
    /\ hop' = None
    /\ attempts' = CountTimeout(attempts)
    /\ UNCHANGED <<notreader, pending, replies, nsub>>

\* handle_message, the else branch: {"original_id", "status": "failure",
\* "error": "Unknown operation: ..."}; process_queue writes the response
UnknownOp ==
    /\ hpc = "unknown"
    /\ replies' = Append(replies, Wrapped(Reply(hop, "failure", attempts)))
    /\ hpc' = "idle"
    /\ hop' = None
    /\ UNCHANGED <<notreader, pending, attempts, nsub>>

\* set_datetime / get_datetime: record = board.get_controller(...)
GetController ==
    /\ hpc = "controller"
    /\ hpc' = "loop"
    /\ UNCHANGED <<notreader, pending, hop, attempts, replies, nsub>>

\* get_controller raises, outside the try of the retry loop
GetControllerTimesOut ==
    /\ hpc = "controller"
    /\ hpc' = "idle"
    /\ hop' = None
    /\ attempts' = CountTimeout(attempts)
    /\ UNCHANGED <<notreader, pending, replies, nsub>>

\* board.set_time / board.get_time returns: break, return status success
TimeCall ==
    /\ hpc = "loop"
    /\ replies' = Append(replies, Wrapped(Reply(hop, "success", attempts)))
    /\ hpc' = "idle"
    /\ hop' = None
    /\ UNCHANGED <<notreader, pending, attempts, nsub>>

\* the call times out: except logs a warning and the loop goes round
TimeCallTimesOut ==
    /\ hpc = "loop"
    /\ attempts' = CountTimeout(attempts)
    /\ UNCHANGED <<notreader, pending, hpc, hop, replies, nsub>>

ReaderNext ==
    \/ \E op \in Operations \cup {UnknownOperation} : Submit(op)
    \/ ClaimMessage
    \/ UnknownOp
    \/ CardOp
    \/ CardOpTimesOut
    \/ GetController
    \/ GetControllerTimesOut
    \/ TimeCall
    \/ TimeCallTimesOut

ReaderSpec == Init /\ [][ReaderNext]_vars

ReaderTypeOK ==
    /\ hpc \in {"idle", "card", "controller", "loop", "unknown"}
    /\ attempts \in 0..MaxAttempts
    /\ nsub \in 0..MaxOps
    /\ Len(pending) + Len(replies) <= nsub

(* ------------------ main(): the reconnection loop --------------------- *)
Min(a, b) == IF a <= b THEN a ELSE b

\* a main() that resets the delay as soon as the connection is open
ResetOnConnect(b) == INITIAL_BACKOFF

\* get_db_connection() returned: backoff is left as it is
BackoffAfterConnect(b) == b

\* LISTEN issued after the resume pass: backoff = INITIAL_BACKOFF
BackoffAfterListen(b) == INITIAL_BACKOFF

\* backoff = min(MAX_BACKOFF, backoff * 2)
NextBackoff(b) == Min(MAX_BACKOFF, b * 2)

\* with get_db_connection() as conn
OpenConnection ==
    /\ bpc = "connect"
    /\ backoff' = BackoffAfterConnect(backoff)
    /\ bpc' = "resume"
    /\ UNCHANGED <<notbackoff, sleeps, nsleeps>>

\* resume_unprocessed(conn, cur) returns
ResumePassDone ==
    /\ bpc = "resume"
    /\ bpc' = "listen"
    /\ UNCHANGED <<notbackoff, backoff, sleeps, nsleeps>>

\* cur.execute(LISTEN); backoff = INITIAL_BACKOFF
ListenIssued ==
    /\ bpc = "listen"
    /\ backoff' = BackoffAfterListen(backoff)
    /\ sleeps' = <<>>
    /\ bpc' = "wait"
    /\ UNCHANGED <<notbackoff, nsleeps>>

\* select() returns, with a notification or on the timeout
SelectReturns ==
    /\ bpc = "wait"
    /\ bpc' = "pass"
    /\ UNCHANGED <<notbackoff, backoff, sleeps, nsleeps>>

\* the pass is over and LISTEN is issued again (lines 372, 387)
PassDoneListenAgain ==
    /\ bpc = "pass"
    /\ bpc' = "wait"
    /\ UNCHANGED <<notbackoff, backoff, sleeps, nsleeps>>

\* an exception leaves the with block, wherever the loop is
ListenerError ==
    /\ bpc \in {"connect", "resume", "listen", "wait", "pass"}
    /\ nsleeps < MaxSleeps
    /\ nsleeps' = nsleeps + 1
    /\ bpc' = "sleep"
    /\ UNCHANGED <<notbackoff, backoff, sleeps>>

\* time.sleep(backoff); backoff = min(MAX_BACKOFF, backoff * 2)
SleepBackoff ==
    /\ bpc = "sleep"
    /\ sleeps' = Append(sleeps, backoff)
    /\ backoff' = NextBackoff(backoff)
    /\ bpc' = "connect"
    /\ UNCHANGED <<notbackoff, nsleeps>>

BackoffNext ==
    \/ OpenConnection
    \/ ResumePassDone
    \/ ListenIssued
    \/ SelectReturns
    \/ PassDoneListenAgain
    \/ ListenerError
    \/ SleepBackoff

BackoffSpec == Init /\ [][BackoffNext]_vars

BackoffTypeOK ==
    /\ bpc \in {"connect", "resume", "listen", "wait", "pass", "sleep"}
    /\ backoff \in INITIAL_BACKOFF..MAX_BACKOFF
    /\ nsleeps \in 0..MaxSleeps
    /\ Len(sleeps) <= nsleeps

(* ------------- the two fetch-and-process loops, as functions ---------- *)
\* what the loops are started from: a table, the routes, and the answer of
\* the effector to the POST of each row
Tables == UNION { [1..n -> [change : ChangeTypes, processed : BOOLEAN]] : n \in 0..MaxRows }
RouteSets == { service_endpoints } \cup
             { service_endpoints \cup {[name |-> "mystery", endpoint |-> MysteryEndpoint]} }
LoopAnswers == { r \in Responses : r.status_code \in {200, 500} }

Outcome(mc, lg, posts) == [run |-> TRUE, mc |-> mc, log |-> lg, posts |-> posts]

\* process_row: False without a route; else POST, log the answer, and
\* True if and only if the answer is 200
process_row(st, id, inp) ==
    LET svc == get_service_for_change(inp.se, st.mc[id].change)
        resp == inp.answers[id]
    IN  IF svc.name = None
        THEN [ok |-> FALSE, st |-> st]
        ELSE [ok |-> IsSuccess(resp.status_code),
              st |-> Outcome(st.mc,
                             log_processing_error(st.log, id, svc.name, svc.endpoint,
                                                  resp.status_code, AttemptMessage(resp)),
                             Append(st.posts, id))]

\* process_batch: for each row, mark and commit on True, rollback on False
RECURSIVE process_batch(_, _, _, _)
process_batch(st, rs, k, inp) ==
    IF k > Len(rs) THEN st
    ELSE LET r == process_row(st, rs[k], inp)
             mc2 == IF r.ok THEN Commit(r.st.mc, mark_as_processed({}, rs[k]))
                    ELSE rollback(r.st.mc, rs[k])
         IN  process_batch(Outcome(mc2, r.st.log, r.st.posts), rs, k + 1, inp)

\* resume_unprocessed, the while True loop (lines 270-287)
RECURSIVE ResumeWhile(_, _, _)
ResumeWhile(st, after_id, inp) ==
    LET rs == fetch_unprocessed_batch(st.mc, BATCH_SIZE, after_id)
    IN  IF rs = <<>> THEN st
        ELSE LET st2 == process_batch(st, rs, 1, inp)
             IN  IF Len(rs) < BATCH_SIZE THEN st2
                 ELSE ResumeWhile(st2, rs[Len(rs)], inp)

\* resume_unprocessed: return 0 if count_unprocessed is 0, else the loop
resume_unprocessed(st, inp) ==
    IF count_unprocessed(st.mc) = 0 THEN st ELSE ResumeWhile(st, 0, inp)

\* a notification loop that handles the first batch only
NotifyOneBatch(st, after_id, inp) ==
    process_batch(st, fetch_unprocessed_batch(st.mc, BATCH_SIZE, after_id), 1, inp)

\* process_pending_notifications, the while True loop (lines 308-319)
RECURSIVE NotifyWhile(_, _, _)
NotifyWhile(st, after_id, inp) ==
    LET rs == fetch_unprocessed_batch(st.mc, BATCH_SIZE, after_id)
    IN  IF rs = <<>> THEN st
        ELSE LET st2 == process_batch(st, rs, 1, inp)
             IN  IF Len(rs) < BATCH_SIZE THEN st2
                 ELSE NotifyWhile(st2, rs[Len(rs)], inp)

\* process_pending_notifications: drain the notifications, then the loop
process_pending_notifications(st, inp) == NotifyWhile(st, 0, inp)

\* the state both loops are started from
ChooseInput ==
    /\ lpc = "unset"
    /\ \E mc \in Tables, se \in RouteSets :
        \E answers \in [1..Len(mc) -> LoopAnswers] :
            loop_in' = [mc |-> mc, se |-> se, answers |-> answers]
    /\ lpc' = "chosen"
    /\ UNCHANGED <<notloop, by_resume, by_notify>>

\* startup or timeout: resume_unprocessed runs on it
RunResume ==
    /\ lpc = "chosen"
    /\ ~by_resume.run
    /\ by_resume' = resume_unprocessed(Outcome(loop_in.mc, <<>>, <<>>), loop_in)
    /\ UNCHANGED <<notloop, lpc, loop_in, by_notify>>

\* a notification: process_pending_notifications runs on it
RunNotify ==
    /\ lpc = "chosen"
    /\ ~by_notify.run
    /\ by_notify' = process_pending_notifications(Outcome(loop_in.mc, <<>>, <<>>), loop_in)
    /\ UNCHANGED <<notloop, lpc, loop_in, by_resume>>

LoopNext ==
    \/ ChooseInput
    \/ RunResume
    \/ RunNotify

LoopSpec == Init /\ [][LoopNext]_vars

LoopTypeOK ==
    /\ lpc \in {"unset", "chosen"}
    /\ by_resume.run => Len(by_resume.mc) = Len(loop_in.mc)
    /\ by_notify.run => Len(by_notify.mc) = Len(loop_in.mc)

(* ------------- a route registered between two passes ------------------ *)
\* the pass, by either loop, on the table as the pass before left it: the
\* routes are those of the table service_endpoints at the time of the pass,
\* the answers those of this pass
PassInput(k) ==
    [mc |-> IF k = 1 THEN route_in.mc ELSE first_pass.mc,
     se |-> route_in.se, answers |-> route_in.answers[k]]
StartOfPass(k) == Outcome(PassInput(k).mc, <<>>, <<>>)

\* a table with changes of a type that has no route, and the answers the
\* effectors give in the first and in the second pass
ChooseTable ==
    /\ rtpc = "unset"
    /\ \E mc \in Tables :
        \E a1 \in [1..Len(mc) -> LoopAnswers], a2 \in [1..Len(mc) -> LoopAnswers] :
            route_in' = [mc |-> mc, se |-> service_endpoints, answers |-> <<a1, a2>>]
    /\ rtpc' = "chosen"
    /\ UNCHANGED <<notroute, first_pass, second_pass>>

\* startup or a timeout: resume_unprocessed
PassByResume ==
    /\ rtpc \in {"chosen", "added"}
    /\ IF rtpc = "chosen"
       THEN /\ first_pass' = resume_unprocessed(StartOfPass(1), PassInput(1))
            /\ rtpc' = "first"
            /\ UNCHANGED second_pass
       ELSE /\ second_pass' = resume_unprocessed(StartOfPass(2), PassInput(2))
            /\ rtpc' = "second"
            /\ UNCHANGED first_pass
    /\ UNCHANGED <<notroute, route_in>>

\* a notification: process_pending_notifications
PassByNotify ==
    /\ rtpc \in {"chosen", "added"}
    /\ IF rtpc = "chosen"
       THEN /\ first_pass' = process_pending_notifications(StartOfPass(1), PassInput(1))
            /\ rtpc' = "first"
            /\ UNCHANGED second_pass
       ELSE /\ second_pass' = process_pending_notifications(StartOfPass(2), PassInput(2))
            /\ rtpc' = "second"
            /\ UNCHANGED first_pass
    /\ UNCHANGED <<notroute, route_in>>

\* an operator registers the effector of the change type while the
\* dispatcher waits in select()
RegisterRoute(n) ==
    /\ rtpc = "first"
    /\ \A r \in route_in.se : r.name # n
    /\ route_in' = [route_in EXCEPT !.se = @ \cup {[name |-> n, endpoint |-> EndpointOf(n)]}]
    /\ rtpc' = "added"
    /\ UNCHANGED <<notroute, first_pass, second_pass>>

RouteNext ==
    \/ ChooseTable
    \/ PassByResume
    \/ PassByNotify
    \/ RegisterRoute("mystery")

RouteSpec == Init /\ [][RouteNext]_vars

(* ------------- two dispatcher processes over one change log ----------- *)
DCur(d) == drows[d][dri[d]]

\* a portal or sync job inserts a status change
TwoInsert ==
    /\ Len(changes) < MaxRows
    /\ changes' = Append(changes, [change |-> "status", processed |-> FALSE])
    /\ delivered' = Append(delivered, <<>>)
    /\ UNCHANGED <<nottwo, dpc, dlast, drows, dri, dtxn, npasses>>

\* resume_unprocessed or process_pending_notifications begins: last_id = 0
TwoStartPass(d) ==
    /\ dpc[d] = "wait"
    /\ npasses[d] < MaxPasses
    /\ npasses' = [npasses EXCEPT ![d] = @ + 1]
    /\ dlast' = [dlast EXCEPT ![d] = 0]
    /\ dpc' = [dpc EXCEPT ![d] = "fetch"]
    /\ UNCHANGED <<nottwo, changes, drows, dri, dtxn, delivered>>

\* rows = fetch_unprocessed_batch(cur, BATCH_SIZE, after_id=last_id): a plain
\* SELECT under READ COMMITTED, which sees what the other process committed
\* and takes no lock
TwoFetch(d) ==
    /\ dpc[d] = "fetch"
    /\ LET rs == fetch_unprocessed_batch(changes, BATCH_SIZE, dlast[d])
       IN  IF rs = <<>>
           THEN /\ dpc' = [dpc EXCEPT ![d] = "wait"]
                /\ UNCHANGED <<drows, dri>>
           ELSE /\ drows' = [drows EXCEPT ![d] = rs]
                /\ dri' = [dri EXCEPT ![d] = 1]
                /\ dpc' = [dpc EXCEPT ![d] = "post"]
    /\ UNCHANGED <<nottwo, changes, dlast, dtxn, delivered, npasses>>

\* the for loop of process_batch moves on; past the end of the batch the
\* while loop sets last_id and fetches again or ends the pass
TwoAdvance(d) ==
    IF dri[d] < Len(drows[d])
    THEN /\ dri' = [dri EXCEPT ![d] = @ + 1]
         /\ dpc' = [dpc EXCEPT ![d] = "post"]
         /\ UNCHANGED <<drows, dlast>>
    ELSE /\ dri' = [dri EXCEPT ![d] = 0]
         /\ drows' = [drows EXCEPT ![d] = <<>>]
         /\ dlast' = [dlast EXCEPT ![d] = drows[d][Len(drows[d])]]
         /\ dpc' = [dpc EXCEPT ![d] = IF Len(drows[d]) < BATCH_SIZE THEN "wait" ELSE "fetch"]

\* process_row: the POST is answered 200 and process_row returns True
TwoPost200(d) ==
    /\ dpc[d] = "post"
    /\ delivered' = [delivered EXCEPT ![DCur(d)] = Append(@, d)]
    /\ dpc' = [dpc EXCEPT ![d] = "mark"]
    /\ UNCHANGED <<nottwo, changes, dlast, drows, dri, dtxn, npasses>>

\* mark_as_processed: the UPDATE waits while the other process holds the
\* row in a transaction it has not committed
TwoMark(d) ==
    /\ dpc[d] = "mark"
    /\ \A e \in Dispatchers \ {d} : DCur(d) \notin dtxn[e]
    /\ dtxn' = [dtxn EXCEPT ![d] = mark_as_processed(@, DCur(d))]
    /\ dpc' = [dpc EXCEPT ![d] = "commit"]
    /\ UNCHANGED <<nottwo, changes, dlast, drows, dri, delivered, npasses>>

\* the POST is answered with another status: return False, rollback
TwoPostFails(d) ==
    /\ dpc[d] = "post"
    /\ changes' = rollback(changes, DCur(d))
    /\ dtxn' = [dtxn EXCEPT ![d] = {}]
    /\ TwoAdvance(d)
    /\ UNCHANGED <<nottwo, delivered, npasses>>

\* conn.commit()
TwoCommit(d) ==
    /\ dpc[d] = "commit"
    /\ changes' = Commit(changes, dtxn[d])
    /\ dtxn' = [dtxn EXCEPT ![d] = {}]
    /\ TwoAdvance(d)
    /\ UNCHANGED <<nottwo, delivered, npasses>>

TwoNext ==
    \/ TwoInsert
    \/ \E d \in Dispatchers :
        \/ TwoStartPass(d)
        \/ TwoFetch(d)
        \/ TwoPost200(d)
        \/ TwoMark(d)
        \/ TwoPostFails(d)
        \/ TwoCommit(d)

TwoSpec == Init /\ [][TwoNext]_vars

(* ------------- the queue directory seen by a single consumer ---------- *)
\* what os.path.getmtime gives for each file of a listing
Listing(f, files) ==
    { [id |-> MsgIdOf(basename(q)), mtime |-> f[q].mtime] : q \in files }
FileIds == 1..MaxFiles
WasSent(m) ==
    \/ \E q \in DOMAIN ffs : q[3] = m
    \/ \E k \in 1..Len(fhandled) : fhandled[k].id = m

\* send_message_async: the message is written to tmp_path: open, json.dump,
\* flush, fsync
FifoWrite(m) ==
    /\ ~WasSent(m)
    /\ fclock' = fclock + 1
    /\ ffs' = DumpAndSync(OpenForWrite(ffs, tmp_path(m), Message(m)),
                          tmp_path(m), fclock')
    /\ UNCHANGED <<notfifo, fpc, fmsg, flisted, fhandled>>

\* send_message_async: os.rename(tmp_path, final_path)
FifoPublish(m) ==
    /\ Exists(ffs, tmp_path(m))
    /\ ffs' = Rename(ffs, tmp_path(m), final_path(m))
    /\ UNCHANGED <<notfifo, fclock, fpc, fmsg, flisted, fhandled>>

\* process_queue: glob, sort(key=os.path.getmtime), current_file =
\* queue_files[0]; an empty listing sleeps and lists again
FifoList ==
    /\ fpc = "list"
    /\ glob_queue(ffs) # {}
    /\ fmsg' = MsgIdOf(basename(Oldest(ffs, glob_queue(ffs))))
    /\ flisted' = Listing(ffs, glob_queue(ffs))
    /\ fpc' = "rename"
    /\ UNCHANGED <<notfifo, ffs, fclock, fhandled>>

\* os.rename(current_file, processing_path); with one consumer nothing else
\* takes a file out of the queue directory, so the file is there
FifoClaim ==
    /\ fpc = "rename"
    /\ Exists(ffs, final_path(fmsg))
    /\ ffs' = Rename(ffs, final_path(fmsg), processing_path(JsonName(fmsg)))
    /\ fhandled' = Append(fhandled, [id |-> fmsg,
                                     mtime |-> ffs[final_path(fmsg)].mtime,
                                     listing |-> flisted])
    /\ fpc' = "handle"
    /\ UNCHANGED <<notfifo, fclock, fmsg, flisted>>

\* the rest of the iteration: handle_message, the response written to tmp_resp
\* and renamed into the response directory, the processing file removed
FifoFinish ==
    /\ fpc = "handle"
    /\ ffs' = Remove(Rename(DumpAndSync(OpenForWrite(ffs, tmp_resp(fmsg),
                                                     result_data(fmsg)),
                                        tmp_resp(fmsg), 0),
                            tmp_resp(fmsg), final_resp(JsonName(fmsg))),
                     processing_path(JsonName(fmsg)))
    /\ fpc' = "list"
    /\ fmsg' = 0
    /\ flisted' = {}
    /\ UNCHANGED <<notfifo, fclock, fhandled>>

FifoNext ==
    \/ \E m \in FileIds : FifoWrite(m)
    \/ \E m \in FileIds : FifoPublish(m)
    \/ FifoList
    \/ FifoClaim
    \/ FifoFinish

FifoSpec == Init /\ [][FifoNext]_vars

(* ---------- status changes of one member, failed and retried ---------- *)
MemberStatuses == {"active", "inactive"}
ActiveTags(tl) == { k \in 1..Len(tl) : StatusSends(tl[k]) }

\* perform_status_changes, the loop over the tags: the first k rows of
\* get_member_tags are gone through, each ACTIVE one sent to the add or to the
\* remove endpoint according to change_type
RECURSIVE StatusApplied(_, _, _, _)
StatusApplied(b, tl, change_type, k) ==
    IF k = 0 THEN b
    ELSE LET before == StatusApplied(b, tl, change_type, k - 1)
         IN  IF StatusSends(tl[k])
             THEN BoardOp(before, StatusTagOp(change_type), k)
             ELSE before

OrdCur == orows[ori]

\* the member and the tags it has
OrdChooseTags(tl) ==
    /\ opc = "unset"
    /\ otags' = tl
    /\ opc' = "wait"
    /\ UNCHANGED <<notord, ochanges, oboard, olast, orows, ori>>

\* the member's status is changed: a row with membership_status in its data
OrdInsert(status) ==
    /\ opc # "unset"
    /\ Len(ochanges) < MaxRows
    /\ ochanges' = Append(ochanges, [status |-> status, processed |-> FALSE])
    /\ UNCHANGED <<notord, opc, otags, oboard, olast, orows, ori>>

\* resume_unprocessed / process_pending_notifications: last_id = 0
OrdStartPass ==
    /\ opc = "wait"
    /\ Unprocessed(ochanges) # {}
    /\ olast' = 0
    /\ opc' = "fetch"
    /\ UNCHANGED <<notord, otags, ochanges, oboard, orows, ori>>

\* rows = fetch_unprocessed_batch(conn, BATCH_SIZE, last_id); if not rows: break
OrdFetch ==
    /\ opc = "fetch"
    /\ orows' = fetch_unprocessed_batch(ochanges, BATCH_SIZE, olast)
    /\ IF orows' = <<>>
       THEN opc' = "wait" /\ ori' = 0
       ELSE opc' = "row" /\ ori' = 1
    /\ UNCHANGED <<notord, otags, ochanges, oboard, olast>>

\* process_batch goes to the next row; after the last one last_id =
\* rows[-1][0] and a batch shorter than BATCH_SIZE ends the pass
OrdAdvance ==
    IF ori < Len(orows)
    THEN /\ ori' = ori + 1
         /\ UNCHANGED <<opc, olast, orows>>
    ELSE /\ olast' = orows[Len(orows)]
         /\ opc' = IF Len(orows) < BATCH_SIZE THEN "wait" ELSE "fetch"
         /\ orows' = <<>>
         /\ ori' = 0

\* the POST is answered 200: change_status took membership_status from the
\* change_data of the row and perform_status_changes went through every tag;
\* mark_as_processed, commit
OrdRowSucceeds ==
    /\ opc = "row"
    /\ oboard' = StatusApplied(oboard, otags, ochanges[OrdCur].status, Len(otags))
    /\ ochanges' = Commit(ochanges, mark_as_processed({}, OrdCur))
    /\ OrdAdvance
    /\ UNCHANGED <<notord, otags>>

\* the POST fails: DH2AD or the DH2RFID call for tag k + 1 failed and
\* change_status answered 500, or the answer was lost; the row is rolled back
OrdRowFails(k) ==
    /\ opc = "row"
    /\ oboard' = StatusApplied(oboard, otags, ochanges[OrdCur].status, k)
    /\ OrdAdvance
    /\ UNCHANGED <<notord, otags, ochanges>>

OrdNext ==
    \/ \E tl \in TagLists : OrdChooseTags(tl)
    \/ \E status \in MemberStatuses : OrdInsert(status)
    \/ OrdStartPass
    \/ OrdFetch
    \/ OrdRowSucceeds
    \/ \E k \in 0..Len(otags) : OrdRowFails(k)

OrderSpec == Init /\ [][OrdNext]_vars

(* ------------------- RFID2DB: the monitoring loop --------------------- *)
DbOutcomes == {"ok", "insert_fails", "connect_fails"}

\* conn = get_db_connection(); insert_rfid_event(conn, event), inside try /
\* except Exception: the event is handed to insert_rfid_event unless
\* get_db_connection raised, and it is stored if the INSERT was committed
insert_rfid_event(h, index, db) ==
    IF db = "connect_fails" THEN h
    ELSE h \cup { [index |-> index, stored |-> (db = "ok")] }

\* a card is presented: the board records an event under the next index
BoardRecordsEvent ==
    /\ event_index < MaxEvents
    /\ event_index' = event_index + 1
    /\ UNCHANGED <<notmon, mpc, last_event_index, handed>>

\* status = board.get_status(BOARD_SERIAL); last_event_index =
\* status.event_index (the events before that are left to get_events_after)
MonitorStart ==
    /\ mpc = "start"
    /\ last_event_index' = event_index
    /\ mpc' = "loop"
    /\ UNCHANGED <<notmon, event_index, handed>>

\* one iteration that sees a new index: current_event_index =
\* status.event_index; event = board.get_event(BOARD_SERIAL,
\* current_event_index); the insert is tried; last_event_index =
\* current_event_index. (An iteration that sees no new index, or in which
\* the board does not answer three times, changes nothing.)
MonitorPoll(db) ==
    /\ mpc = "loop"
    /\ LET current_event_index == event_index
       IN  /\ current_event_index > last_event_index
           /\ handed' = insert_rfid_event(handed, current_event_index, db)
           /\ last_event_index' = current_event_index
    /\ UNCHANGED <<notmon, mpc, event_index>>

MonitorNext ==
    \/ BoardRecordsEvent
    \/ MonitorStart
    \/ \E db \in DbOutcomes : MonitorPoll(db)

MonitorSpec == Init /\ [][MonitorNext]_vars

(* ============================ properties ============================== *)
HasRoute(i) == \E r \in service_endpoints : r.name = member_changes[i].change
Logged(i, code) ==
    \E j \in DOMAIN processing_log :
        /\ processing_log[j].member_change_id = i
        /\ processing_log[j].response_code = code
HttpCodes == { r.status_code : r \in Responses }
InProgress(i) == InRow /\ Cur = i
LastLog(lg) == lg[Len(lg)]
\* the Attempt row the dispatcher owes for the response it holds
ResponseRow ==
    AttemptRow(Cur, service.name, service.endpoint, response.status_code, response.text)

\* C1: every member_changes row with processed = TRUE has a
\* member_changes_processing_log row with its id and response_code = 200,
\* whatever failures and crashes happened on the way.
C1_ProcessedHasLogged200 ==
    \A i \in Ids(member_changes) :
        member_changes[i].processed => Logged(i, 200)

C1_Witness ==
    /\ faults > 0
    /\ \E i \in Ids(member_changes) : member_changes[i].processed

\* C2 as stated: a row with processed = FALSE that is not being processed
\* has never been answered 200 or has no route, also after failures.
C2_UnprocessedNever200 ==
    \A i \in Ids(member_changes) :
        (~member_changes[i].processed /\ ~InProgress(i))
            => (i \notin got200 \/ ~HasRoute(i))

\* C2 amended: a row with processed = FALSE that is not being processed has
\* never been answered 200, or has no route, or each 200 it was answered was
\* followed by a failed Attempt insert, a failed mark or commit, or a crash.
C2_UnprocessedNever200UnlessFailure ==
    \A i \in Ids(member_changes) :
        (~member_changes[i].processed /\ ~InProgress(i))
            => (i \notin got200 \/ ~HasRoute(i) \/ i \in lost200)

C2_Witness ==
    /\ pc = "wait"
    /\ \E i \in Ids(member_changes) :
          ~member_changes[i].processed /\ i \in got200 /\ i \in lost200

\* C3 as stated: over the whole run of one process, each POST carries an id
\* not smaller than the id of the POST before it.
C3_PostsNonDecreasingOverRun ==
    [][(pc = "post" /\ pc' \in {"log", "except"}) => Cur >= lastPost]_vars

\* C3 amended: within one fetch pass the rows are handed to process_row, and
\* so POSTed, in strictly increasing id order.
C3_PostsIncreasingWithinPass ==
    InRow => /\ \A a \in attempted : a <= Cur
             /\ pc = "row" => Cur \notin attempted

C3_Witness ==
    /\ pc = "post"
    /\ lastPost # 0
    /\ lastPost \in attempted
    /\ lastPost < Cur

\* C4: no step sets processed back to FALSE, deletes a member_changes row or
\* changes its change key.
C4_ProcessedNeverReset ==
    [][/\ Len(member_changes') >= Len(member_changes)
       /\ \A i \in Ids(member_changes) :
            /\ member_changes'[i].change = member_changes[i].change
            /\ member_changes[i].processed => member_changes'[i].processed]_vars

C4_Witness ==
    /\ pc = "except"
    /\ member_changes[Cur].processed

\* C5: a row whose change key has no route is not processed.
C5_UnroutableNeverProcessed ==
    \A i \in Ids(member_changes) :
        member_changes[i].processed => HasRoute(i)

C5_Witness ==
    /\ pc = "rollback"
    /\ ~HasRoute(Cur)
    /\ \E i \in Ids(member_changes) : member_changes[i].processed

\* C6: when process_row finds no route, an Attempt row with a synthetic
\* failure code for that change is appended, exactly one.
C6_NoRouteAppendsAttempt ==
    [][(pc = "row" /\ pc' = "rollback")
          => /\ Len(processing_log') = Len(processing_log) + 1
             /\ LastLog(processing_log').member_change_id = Cur
             /\ LastLog(processing_log').response_code \notin HttpCodes]_vars

\* C7: when a pass ends, every row that existed when it began is processed
\* or was handed to process_row in this pass, and none that was answered 200
\* without a failure after it is left unprocessed: a failing row stops no
\* later row, in its batch or in a later batch.
C7_FailingRowStopsNoLaterRow ==
    pc = "listen" =>
        \A i \in 1..passLen :
            \/ member_changes[i].processed
            \/ i \in attempted /\ (i \in got200 => i \in lost200)

C7_Witness ==
    /\ pc = "listen"
    /\ passLen > BATCH_SIZE
    /\ \A i \in 1..BATCH_SIZE : ~member_changes[i].processed /\ i \in attempted
    /\ member_changes[BATCH_SIZE + 1].processed

\* C8 as stated: answered with a status other than 200, the dispatcher
\* appends an Attempt row with exactly that status and body, and the row
\* stays processed = FALSE.
C8_Non200AppendsExactAttempt ==
    [][(pc = "log" /\ response.status_code # 200 /\ pc' \in {"rollback", "except"})
          => /\ processing_log' = Append(processing_log, ResponseRow)
             /\ ~member_changes'[Cur].processed]_vars

\* C8 amended: answered with a status other than 200, the dispatcher calls
\* log_processing_error with exactly that status and body; when the call
\* returns, exactly that Attempt row has been appended; when it raises or the
\* process dies, that row or nothing has been appended; in every case the
\* row stays processed = FALSE.
C8_Non200AttemptUnlessInsertFails ==
    [][/\ (pc = "log" /\ response.status_code # 200 /\ pc' # "log")
            => /\ \/ processing_log' = Append(processing_log, ResponseRow)
                  \/ processing_log' = processing_log /\ pc' \in {"except", "connect"}
               /\ pc' \in {"rollback", "except", "connect"}
               /\ member_changes' = member_changes
               /\ ~member_changes[Cur].processed
               /\ txn' = {}
       /\ (pc \in {"rollback", "except"} /\ response.status_code \in HttpCodes \ {200}
             /\ pc' # pc)
            => /\ member_changes' = member_changes
               /\ ~member_changes[Cur].processed]_vars

C8_Witness ==
    /\ pc = "rollback"
    /\ response.status_code = 500
    /\ processing_log # <<>>
    /\ LastLog(processing_log) = ResponseRow
    /\ ~member_changes[Cur].processed

\* C9: when requests.post raises, an Attempt row with a synthesized
\* transport-failure code for that change has been appended by the time the
\* dispatcher leaves the row, and the row stays processed = FALSE.
C9_TransportErrorAppendsAttempt ==
    [][(pc = "except" /\ service.name # None /\ response = NoResponse
          /\ pc' \notin {"except", "connect", "backoff"})
          => /\ processing_log' # <<>>
             /\ LastLog(processing_log').member_change_id = Cur
             /\ LastLog(processing_log').response_code \notin HttpCodes
             /\ ~member_changes'[Cur].processed]_vars

PassPcs == {"fetch", "row", "post", "log", "mark", "commit", "rollback", "except"}
RowPcs == {"row", "post", "log", "mark", "commit", "rollback"}

\* C11: on a connection that is not listening yet (a start or a reconnect),
\* main() goes from the connect to resume_unprocessed and nowhere else, a
\* fetch pass is entered from resume_unprocessed only, LISTEN is issued only
\* once that pass has returned, the pass hands rows to process_row in
\* ascending id order, and when it returns every row that was unprocessed
\* when it began is processed or has been handed to process_row.
C11_ListenOnlyAfterResumePass ==
    [][/\ (pc = "connect" /\ pc' # pc) => pc' \in {"resume", "backoff"}
       /\ (~listening /\ pc \notin PassPcs /\ pc' \in PassPcs) => pc = "resume"
       /\ (~listening /\ pc # "listen" /\ pc' = "listen")
            => /\ pc \in {"resume"} \cup PassPcs
               /\ \A i \in Unprocessed(member_changes') :
                     i \in attempted' \/ i > passLen'
       /\ (~listening /\ pc = "row") => \A a \in attempted : a < Cur
       /\ (~listening /\ listening') => (pc = "listen" /\ pc' = "wait")]_vars

C11_Witness ==
    /\ pc = "listen"
    /\ ~listening
    /\ faults > 0
    /\ Cardinality(attempted) >= 2
    /\ passLen > Cardinality(attempted)

\* C12: the dispatcher never holds a processed row in process_row, so it
\* POSTs, logs and marks unprocessed rows only; the rows still to come in
\* the fetched batch are unprocessed; the open transaction touches
\* unprocessed rows only; with no unprocessed row it is in no row at all.
C12_ProcessedNeverPostedAgain ==
    /\ pc \in RowPcs => ~member_changes[Cur].processed
    /\ InRow => \A j \in (ri + 1)..Len(rows) : ~member_changes[rows[j]].processed
    /\ txn \subseteq Unprocessed(member_changes)
    /\ count_unprocessed(member_changes) = 0 => pc \notin RowPcs

C12_Witness ==
    /\ faults > 0
    /\ pc = "listen"
    /\ ~listening
    /\ processing_log # <<>>
    /\ member_changes # <<>>
    /\ count_unprocessed(member_changes) = 0

\* C13: a pass started from the notification wait begins with conn.notifies
\* empty, however many notifications were queued; a notification is queued
\* only by an insert, one per insert; queued notifications leave the queue
\* only at the start of that pass or with the connection.
C13_NotificationsDrainedTogether ==
    [][/\ (pc = "wait" /\ pc' = "fetch") => (notifies > 0 /\ notifies' = 0)
       /\ notifies' > notifies
            => /\ listening
               /\ notifies' = notifies + 1
               /\ Len(member_changes') = Len(member_changes) + 1
       /\ notifies' < notifies
            => \/ pc = "wait" /\ pc' = "fetch"
               \/ pc' \in {"backoff", "connect"}]_vars

C13_Witness ==
    /\ pc = "listen"
    /\ listening
    /\ attempted # {}
    /\ notifies >= 2

AllRoutedProcessed ==
    \A i \in Ids(member_changes) : HasRoute(i) => member_changes[i].processed

\* C14: with an effector that answers 200 and a dispatcher that keeps
\* running, every inserted row that has a route is eventually processed,
\* whether or not a notification for it was queued (inserted while the
\* dispatcher was not listening, or while it was reconnecting): again and
\* again every row that has a route is processed, and since neither a
\* processed flag nor a route is ever taken back, each such row is
\* processed from some moment on.
C14_RoutedRowEventuallyProcessed == []<>AllRoutedProcessed

\* a row inserted while nothing listened, processed by the timeout path
C14_Witness ==
    /\ listening
    /\ pc = "commit"
    /\ notifies = 0
    /\ faults = 0
    /\ passLen = Len(member_changes)
    /\ Cur = Len(member_changes)
    /\ Cur \in txn
    /\ \A i \in Ids(member_changes) : i # Cur => member_changes[i].processed

(* ------------------------- the file queue ----------------------------- *)
\* the message of call m has been renamed into queues/
Sent(m) == ppc[m] \in {"wait", "returned"}
InDir(dir, m) == Exists(fs, Path(dir, JsonName(m)))
FilesIn(dir) == { q \in DOMAIN fs : q[1] = dir }
ResponseFilesOf(m) == { q \in FilesIn(RESPONSE_DIR) : MsgIdOf(basename(q)) = m }
Claimant(c, m) == holds[c] = m /\ msg_id[c] = m

\* C15: for every message id at most one response file responses/{id}.json
\* exists, it was renamed there once only, by the consumer that had renamed
\* the message of that id into processing/, and its original_id is that id.
C15_OneResponsePerIdByClaimant ==
    /\ \A m \in Msgs :
        /\ Cardinality(ResponseFilesOf(m)) <= 1
        /\ published[m] <= 1
        /\ published[m] = 1 => nclaims[m] = 1
        /\ InDir(RESPONSE_DIR, m) => published[m] = 1
    /\ \A q \in FilesIn(RESPONSE_DIR) : fs[q].json.original_id = MsgIdOf(basename(q))
    /\ \A c \in Consumers :
        cpc[c] \in {"dump_resp", "rename_resp"} =>
            /\ msg_id[c] \in Msgs
            /\ Claimant(c, msg_id[c])
            /\ fs[tmp_resp(msg_id[c])].json.original_id = msg_id[c]

\* both responses published, by two consumers, neither read yet
C15_Witness ==
    /\ \A m \in Msgs : InDir(RESPONSE_DIR, m) /\ published[m] = 1
    /\ \A c \in Consumers : cpc[c] = "cleanup"
    /\ msg_id["c1"] # msg_id["c2"]

\* C16: every message renamed into queues/ is from then on in queues/, in
\* processing/, or has had its response renamed into responses/, also when
\* the read or the handler raises and across a consumer stop and restart.
C16_NoMessageLostWithoutReply ==
    \A m \in Msgs :
        Sent(m) => InDir(QUEUE_DIR, m) \/ InDir(PROCESSING_DIR, m) \/ published[m] > 0

\* C17: with two consumers on the same queues/ directory every message is
\* renamed into processing/ by one consumer only, and only that consumer
\* handles it and writes a response for it; a consumer whose rename found
\* the file gone holds nothing and is back at the top of its loop.
C17_ClaimedByOneConsumer ==
    /\ \A m \in Msgs :
        /\ nclaims[m] <= 1
        /\ Cardinality({ c \in Consumers : holds[c] = m }) <= 1
        /\ Cardinality({ c \in Consumers : cpc[c] \in HoldingPcs /\ msg_id[c] = m }) <= 1
        /\ (Exists(fs, tmp_resp(m)) \/ published[m] > 0) => nclaims[m] = 1
    /\ \A c \in Consumers :
        /\ cpc[c] \in HoldingPcs => msg_id[c] \in Msgs /\ Claimant(c, msg_id[c])
        /\ cpc[c] = "list" => msg_id[c] = 0 /\ holds[c] = 0

\* both consumers picked the same file; one renamed it, the other is about
\* to rename a file that is gone
C17_Witness ==
    \E m \in Msgs :
        /\ cpc["c1"] = "handle" /\ holds["c1"] = m
        /\ cpc["c2"] = "rename" /\ msg_id["c2"] = m
        /\ ~InDir(QUEUE_DIR, m)

\* C18: every file in queues/ and in responses/ holds its complete JSON
\* object: a file is written in the root as .tmp_{id} or .tmp_resp_{id} and
\* renamed when complete; a producer that died before its rename, or a
\* consumer that stopped before its rename, left nothing for that id there.
C18_NoPartialFileVisible ==
    /\ \A q \in FilesIn(QUEUE_DIR) \cup FilesIn(RESPONSE_DIR) : fs[q].complete
    /\ \A q \in DOMAIN fs : ~fs[q].complete => q[1] = BASE_DIR
    /\ \A m \in Msgs :
        /\ InDir(QUEUE_DIR, m) => Sent(m) /\ fs[final_path(m)].json = Message(m)
        /\ InDir(RESPONSE_DIR, m) => published[m] = 1
        /\ ppc[m] = "crashed" =>
            ~InDir(QUEUE_DIR, m) /\ ~InDir(PROCESSING_DIR, m) /\ ~InDir(RESPONSE_DIR, m)

\* a producer died with a partial .tmp_ file, and a consumer stopped with a
\* partial .tmp_resp_ file
C18_Witness ==
    \E m, n \in Msgs :
        /\ ppc[m] = "crashed" /\ ~fs[tmp_path(m)].complete
        /\ Exists(fs, tmp_resp(n)) /\ ~fs[tmp_resp(n)].complete
        /\ \A c \in Consumers : holds[c] # n
        /\ published[n] = 0

\* C19: a producer call whose response was renamed into responses/ before
\* the timeout has returned success with that response, and the response
\* file of its id is gone.
C19_ResponseInTimeReturnsSuccess ==
    \A m \in Msgs :
        ret[m].returned /\ intime[m] =>
            /\ ret[m].success
            /\ ret[m].data = result_data(m)
            /\ ~InDir(RESPONSE_DIR, m)

\* C20: a call that ends in failure (a sub-call before the queue failed, the
\* producer died, or the reply did not arrive within the timeout) is
\* answered non-200 by the effector, and the dispatcher leaves the change
\* unprocessed; only a call that returned success is answered 200.
C20_FailureSurfacesNon200 ==
    \A m \in Msgs :
        /\ ret[m].returned => (ret[m].success <=> ~expired[m])
        /\ (ppc[m] \in {"nocall", "crashed"} \/ (ret[m].returned /\ ~ret[m].success)) =>
            /\ effector_answer[m] >= 400
            /\ ~row_processed[m]
        /\ effector_answer[m] = 200 => ret[m].returned /\ ret[m].success
        /\ row_processed[m] <=> effector_answer[m] = 200

\* one call timed out and was answered 500, another succeeded
C20_Witness ==
    \E m, n \in Msgs :
        /\ ret[m].returned /\ ~ret[m].success /\ effector_answer[m] = 500
        /\ ret[n].returned /\ ret[n].success /\ row_processed[n]

(* ------------------------- the effectors ------------------------------ *)
MemberIsActive == member.status \in {"active", "Active"}
Completed == epc = "idle" /\ answer = 200
RfidSent == SelectSeq(sent, LAMBDA r : r.to = "DH2RFID")
RECURSIVE ApplyFrom(_, _)
ApplyFrom(b, k) ==
    IF k > Len(member.tags) THEN b
    ELSE ApplyFrom(IF SendsAt(k) THEN BoardOp(b, TagOpAt(k), k) ELSE b, k + 1)

\* C21: the Access effector sends its requests tag by tag, one per tag: add
\* if and only if the member is active and the tag is ACTIVE, remove in every
\* other case; an application that answers 200 has sent one request for
\* every tag of the member.
C21_AccessOneRequestPerTag ==
    effector = "access" =>
        /\ Len(sent) <= Len(member.tags)
        /\ \A k \in 1..Len(sent) :
            /\ sent[k].to = "DH2RFID"
            /\ sent[k].tag = k
            /\ sent[k].op \in {"add", "remove"}
            /\ sent[k].op = "add" <=> (MemberIsActive /\ member.tags[k] = "ACTIVE")
        /\ Completed => Len(sent) = Len(member.tags)

\* an active member with an ACTIVE and an INACTIVE tag: one add, one remove
C21_Witness ==
    /\ effector = "access"
    /\ Completed
    /\ member.status = "Active"
    /\ \E j, k \in 1..Len(sent) : sent[j].op = "add" /\ sent[k].op = "remove"

\* C22: whenever an application of the change has answered 200, the
\* controller holds the cards it held after the first such application,
\* which are those one application without failure leaves, also after
\* applications that stopped part-way; the directory flag is as it was.
C22_ApplyingAgainChangesNothing ==
    Completed =>
        /\ once.done
        /\ board = once.board
        /\ board = ApplyFrom(board0, 1)
        /\ directory = JsonBool(TRUE)

\* a retry after a partial failure, then the change applied once more
C22_Witness ==
    /\ Completed
    /\ partial
    /\ napply = MaxApply
    /\ board # board0
    /\ \E k \in 1..Len(sent) : sent[k].op = "add"

\* C23: the enabled flag sent to the directory worker is the boolean true
\* when the new membership_status is the active one and the boolean false
\* for every other status.
C23_EnabledFlagIsStatusActive ==
    \A k \in 1..Len(sent) :
        sent[k].to = "DH2AD" => sent[k].enabled = JsonBool(MemberIsActive)

\* C24: a status change that was applied sent one hardware request for each
\* ACTIVE tag, add when the new status is active and remove otherwise, and
\* none for the other tags.
C24_StatusOneRequestPerActiveTag ==
    (effector = "status" /\ Completed) =>
        /\ \A k \in 1..Len(member.tags) :
            Cardinality({ j \in 1..Len(RfidSent) : RfidSent[j].tag = k })
                = IF member.tags[k] = "ACTIVE" THEN 1 ELSE 0
        /\ \A j \in 1..Len(RfidSent) :
            RfidSent[j].op = IF MemberIsActive THEN "add" ELSE "remove"

(* ------------------------ the hardware worker ------------------------- *)
\* messages whose handling is over
Handled == nsub - Len(pending) - (IF hpc = "idle" THEN 0 ELSE 1)

\* C25: the handling of an operation does not go on once the device has
\* timed out MaxAttempts times, every message whose handling is over has a
\* response, and a response after a timeout reports failure.
C25_BoundedAttemptsThenFailure ==
    /\ hpc = "loop" => attempts < MaxAttempts
    /\ Len(replies) = Handled
    /\ \A k \in 1..Len(replies) : replies[k].data.timeouts > 0 => replies[k].data.status = "failure"

(* --------------------------- the dispatcher --------------------------- *)
\* C26: the Attempt row of a 200 and the processed flag are written in one
\* transaction: no state has a stored Attempt row with response_code 200 for
\* a change row that is still unprocessed.
C26_Logged200AtomicWithProcessed ==
    \A i \in Ids(member_changes) :
        Logged(i, 200) => member_changes[i].processed

SeqRange(q) == { q[k] : k \in 1..Len(q) }

\* C27: a pass pages forward and so ends, even if every row fails: a fetch
\* returns only ids above after_id, none handed to process_row before in the
\* pass; after a batch the cursor is the last id of the batch, above the old
\* one; and the pass ends at the first fetch of fewer than BATCH_SIZE rows,
\* an empty one included.
C27_PassPagesForwardAndEnds ==
    [][ /\ (pc = "fetch" /\ pc' \in {"row", "listen"}) =>
            /\ pc' = "row" =>
                /\ rows' # <<>> /\ Len(rows') <= BATCH_SIZE
                /\ \A k \in 1..Len(rows') : rows'[k] > last_id
                /\ SeqRange(rows') \cap attempted = {}
            /\ pc' = "listen" =>
                fetch_unprocessed_batch(member_changes, BATCH_SIZE, last_id) = <<>>
            /\ last_id' = last_id
        /\ (pc = "row" /\ pc' # "row") => Cur \notin attempted
        /\ (InRow /\ pc' \in {"fetch", "listen"}) =>
            /\ ri = Len(rows)
            /\ last_id' = rows[Len(rows)]
            /\ last_id' > last_id
            /\ pc' = "listen" <=> Len(rows) < BATCH_SIZE
      ]_vars

\* BATCH_SIZE rows, all attempted and all still unprocessed, and no other
\* row: the next fetch is empty and ends the pass
C27_Witness ==
    /\ pc = "fetch"
    /\ last_id = BATCH_SIZE
    /\ Len(member_changes) = BATCH_SIZE
    /\ attempted = 1..BATCH_SIZE
    /\ \A i \in attempted : ~member_changes[i].processed

\* C28: a row that is still unprocessed is handed to process_row in a pass
\* before any row with a higher id, and a pass that runs to its end has
\* attempted every unprocessed row that existed when it began, however often
\* the row has failed before: no count of attempts is kept.
C28_FailedRowRetriedFirst ==
    /\ \A a \in attempted : \A b \in 1..(a - 1) :
        ~member_changes[b].processed => b \in attempted
    /\ pc = "listen" =>
        \A i \in 1..passLen : ~member_changes[i].processed => i \in attempted

\* row 1 failed in an earlier pass (its Attempt row is logged) and is being
\* attempted again, before the unprocessed rows behind it
C28_Witness ==
    /\ pc = "post"
    /\ Cur = 1
    /\ attempted = {1}
    /\ \E c \in HttpCodes \ {200} : Logged(1, c)
    /\ Len(member_changes) > 1
    /\ \A i \in Ids(member_changes) : ~member_changes[i].processed

(* ----------------------- the reconnection loop ------------------------ *)
RECURSIVE Pow2(_)
Pow2(n) == IF n = 0 THEN 1 ELSE 2 * Pow2(n - 1)
\* the k-th sleep in a row: 1, 2, 4, 8, 16, 30, 30, ...
Delay(k) == IF Pow2(k - 1) <= 30 THEN Pow2(k - 1) ELSE 30

\* C29: the sleeps since LISTEN was last issued after a connect (all of
\* them, before the first LISTEN) are 1, 2, 4, 8, 16, 30, 30, ... seconds,
\* wherever the failures happened, and the next sleep continues the series.
C29_BackoffDoublesCappedAt30 ==
    /\ \A k \in 1..Len(sleeps) : sleeps[k] = Delay(k)
    /\ backoff = Delay(Len(sleeps) + 1)

\* seven failures in a row, the last of them after the connection had been
\* opened again: the delay stayed at 30
C29_Witness ==
    /\ sleeps = <<1, 2, 4, 8, 16, 30, 30>>
    /\ bpc = "resume"

(* -------------------------- the two loops ----------------------------- *)
\* C30: started from the same table and routes, with the same effector
\* answers, resume_unprocessed and process_pending_notifications POST the
\* same rows in the same order, append the same Attempt rows and mark the
\* same rows processed.
C30_LoopsDoTheSame ==
    (by_resume.run /\ by_notify.run) =>
        /\ by_resume.posts = by_notify.posts
        /\ by_resume.log = by_notify.log
        /\ by_resume.mc = by_notify.mc

\* both loops ran over two batches, with a failing row and a row processed
\* behind it
C30_Witness ==
    /\ by_resume.run /\ by_notify.run
    /\ Len(by_notify.posts) > BATCH_SIZE
    /\ ~by_notify.mc[1].processed
    /\ by_notify.mc[Len(by_notify.mc)].processed
    /\ ~loop_in.mc[Len(loop_in.mc)].processed

(* ------------------- a route registered later ------------------------- *)
\* the rows of a type without a route that the first pass left over
LeftOver ==
    { i \in Ids(route_in.mc) : route_in.mc[i].change = "mystery" /\ ~route_in.mc[i].processed }
PostedIn(o) == SeqRange(o.posts)
LogOf(o, i) == SelectSeq(o.log, LAMBDA r : r.member_change_id = i)

C32_ProcessingTouchesOnlyItsRow ==
    [][ /\ member_changes' # member_changes =>
            \/ /\ Len(member_changes') = Len(member_changes) + 1
               /\ SubSeq(member_changes', 1, Len(member_changes)) = member_changes
               /\ pc' = pc
            \/ /\ pc = "commit"
               /\ response.status_code = 200
               /\ ~member_changes[Cur].processed
               /\ member_changes' = [member_changes EXCEPT ![Cur].processed = TRUE]
        /\ (pc \in {"rollback", "except"} /\ pc' # pc) => member_changes' = member_changes
        /\ (pc = "rollback" /\ pc' # pc) => ~member_changes[Cur].processed
        /\ service_endpoints' # service_endpoints =>
            /\ pc' = pc
            /\ member_changes' = member_changes
            /\ processing_log' = processing_log
      ]_vars

\* a batch of two: the first row failed and is as it was, the second was
\* answered 200 and is processed
C32_Witness ==
    /\ pc = "fetch"
    /\ attempted = {1, 2}
    /\ ~member_changes[1].processed
    /\ member_changes[2].processed
    /\ Len(processing_log) = 1

(* -------------------- two dispatcher processes ------------------------ *)
Times(q, d) == Cardinality({ k \in 1..Len(q) : q[k] = d })

Orphaned(m) == InDir(PROCESSING_DIR, m) /\ \A c \in Consumers : holds[c] # m

\* C34: a message left under processing/ by a consumer that died stays
\* there, as it is: no consumer, restarted or other, renames it, handles it
\* or removes it, and no response for its id is written from then on; a
\* consumer picks files of queues/ only.
C34_OrphanStaysInProcessing ==
    [][ /\ \A m \in Msgs :
            Orphaned(m) =>
                /\ Orphaned(m)'
                /\ fs'[processing_path(JsonName(m))] = fs[processing_path(JsonName(m))]
                /\ published'[m] = published[m]
                /\ nclaims'[m] = nclaims[m]
                /\ InDir(RESPONSE_DIR, m)' => InDir(RESPONSE_DIR, m)
        /\ \A c \in Consumers :
            (cpc[c] = "list" /\ cpc'[c] = "rename") => InDir(QUEUE_DIR, msg_id'[c])
      ]_vars

\* the first message is left under processing/ without a response; both
\* consumers run, and the second message has been answered meanwhile
C34_Witness ==
    /\ Orphaned(1)
    /\ published[1] = 0
    /\ \A c \in Consumers : cpc[c] = "list"
    /\ published[2] = 1
    /\ ret[2].success

(* ------------------------ a late response ----------------------------- *)
\* C35: a response published after the producer call had returned, on its
\* timeout: the call returned failure and the effector answered non-200, the
\* consumer handled the message once, and the response file stays under
\* responses/ with its content, whatever later calls do.
C35_LateResponseStays ==
    \A m \in Msgs :
        late[m] =>
            /\ ret[m].returned /\ ~ret[m].success
            /\ effector_answer[m] >= 400 /\ ~row_processed[m]
            /\ nclaims[m] = 1 /\ published[m] = 1
            /\ InDir(RESPONSE_DIR, m)
            /\ fs[resp_path(m)].json = result_data(m)

\* the first call timed out and its response came late; the retry, with a
\* new id, was answered and its response file was read and removed; the
\* consumer is back at its listing
C35_Witness ==
    /\ late[1]
    /\ InDir(RESPONSE_DIR, 1)
    /\ ret[2].returned /\ ret[2].success
    /\ ~InDir(RESPONSE_DIR, 2)
    /\ row_processed[2]
    /\ \A c \in Consumers : cpc[c] = "list"

C37_LatestStatusOnController ==
    (ochanges # <<>> /\ Unprocessed(ochanges) = {} /\ opc = "wait") =>
        IF ochanges[Len(ochanges)].status = "active"
        THEN ActiveTags(otags) \subseteq oboard
        ELSE ActiveTags(otags) \cap oboard = {}

\* C38: when the handler of a message reports failure, the response file has
\* status "failure", the call of the producer that finds the file does not
\* return success, and the endpoint does not answer 200
C38_HandlerFailureSurfaced ==
    \A k \in 1..Len(replies) :
        replies[k].data.status = "failure" =>
            /\ replies[k].status = "failure"
            /\ ~BoardOperationResult(replies[k]).success
            /\ EndpointAnswer(BoardOperationResult(replies[k]).success) # 200

\* C39: when the monitoring loop moves last_event_index forward, every event
\* with an index above the old value and up to the new one has been handed
\* to insert_rfid_event
C39_EveryEventHanded ==
    [][ (mpc = "loop" /\ last_event_index' > last_event_index) =>
            \A i \in (last_event_index + 1)..last_event_index' :
                \E h \in handed' : h.index = i ]_vars

====
